---- MODULE Spec2Model ----
(***************************************************************************)
(* Sequential-thought orchestration engine of advanced-reason-mcp.         *)
(*                                                                         *)
(* Two single-backend thinking servers ("gemini", "deepseek") sit behind   *)
(* the CombinedSequentialThinkingServer.  The repository holds two builds  *)
(* of the combiner:                                                        *)
(*   "providers" - src/modules/sequential/index.ts: both backends are the  *)
(*                 OpenRouterSequentialThinkingServer of providers/        *)
(*                 (sequential.ts 766-1052), whose generation THROWS.      *)
(*   "legacy"    - unnamed/part_001: a GeminiSequentialThinkingServer      *)
(*                 (providers/google-ai.ts) and the older OpenRouter       *)
(*                 server (sequential.ts 1059-1357), whose generation      *)
(*                 SWALLOWS a fault into an error-text thought.            *)
(*                                                                         *)
(* Strings that the code builds by concatenation are sequences of tokens,  *)
(* so that "text X embeds text Y" is a contiguous-subsequence test.        *)
(* Optional fields: an absent number is 0 (zod demands positive numbers),  *)
(* an absent string is NoStr, an absent/false boolean is FALSE.            *)
(***************************************************************************)
EXTENDS Integers, Sequences, FiniteSets, TLC

VARIABLES
    wiring,                 \* which build of the combiner is running
    thoughtHistory,         \* [Backends -> Seq(ThoughtData)]
    branches,               \* [Backends -> [branchId -> Seq(thoughtNumber)]]
    originalQuery,          \* [Backends -> string]
    lastThoughtTimestamp,   \* [Backends -> Nat]  (0 is null)
    now,                    \* Date.now(), in ms
    calls,                  \* [Slots -> combiner call in flight or last answered]
    prior,                  \* [Backends -> the latest call made on the backend: its
                            \*  currentThinking and how it ended]
    log,                    \* the calls made so far, in order, each with how it ended on
                            \* each backend (kept by the logged specifications only)
    probe                   \* the latest prompt assembly or text rendering: its inputs and
                            \* what it produced (kept by the specifications of the pure
                            \* functions only)

vars == <<wiring, thoughtHistory, branches, originalQuery, lastThoughtTimestamp, now, calls, prior,
          log, probe>>

session == <<thoughtHistory, branches, originalQuery, lastThoughtTimestamp>>

----------------------------------------------------------------------------
(* Bounds of the model *)

MaxHistory == 2        \* records a backend may hold plus calls in flight on it
MaxTicks == 2          \* clock ticks a behaviour may take
MaxInFlight == 2       \* combiner calls that may overlap
MaxThoughtNumber == 2  \* largest thoughtNumber a caller sends
MaxCalls == 3          \* calls of a run that keeps the log

(* Program constants *)

MIN_THINKING_TIME_MS == 2000
TickMs == 1000
StartTime == 1000

Backends == {"gemini", "deepseek"}
Wirings == {"providers", "legacy"}
Slots == 1..MaxInFlight
NoStr == "<undefined>"
NoCall == [pc |-> "free"]
NoProbe == [fn |-> "none"]

ModelTypes == {"gemini", "deepseek", "all"}
Thinkings == {"A", "B"}
BranchIds == {"b1"}

\* The text each model backend can generate, and the faults it can raise.
\* What a model backend can answer: a completion (the reasoning and the content
\* of the stream; a Gemini model streams content only, DeepSeek R1 reasoning),
\* an empty completion, or a fault (an Error with a message).
Faults == [b \in Backends |-> IF b = "gemini" THEN {"quota"} ELSE {"auth"}]
Completions ==
    [b \in Backends |->
        IF b = "gemini" THEN {[reasoning |-> <<>>, content |-> <<"G1">>]}
        ELSE {[reasoning |-> <<"D1">>, content |-> <<>>]}]
EmptyCompletion == [reasoning |-> <<>>, content |-> <<>>]
ModelOutcomes(b) ==
    {[ok |-> TRUE, completion |-> c, fault |-> NoStr] : c \in Completions[b] \cup {EmptyCompletion}}
    \cup {[ok |-> FALSE, completion |-> EmptyCompletion, fault |-> f] : f \in Faults[b]}

----------------------------------------------------------------------------
(* Requests: SequentialThinkingSchema extended with modelType *)

\* A first thought, and a second thought that both revises and branches from it.
Links ==
    { [thoughtNumber |-> 1, isRevision |-> FALSE, revisesThought |-> 0,
       branchFromThought |-> 0, branchId |-> NoStr],
      [thoughtNumber |-> MaxThoughtNumber, isRevision |-> TRUE, revisesThought |-> 1,
       branchFromThought |-> 1, branchId |-> "b1"] }

Requests ==
    { [ modelType |-> m, currentThinking |-> ct, thoughtNumber |-> l.thoughtNumber,
        totalThoughts |-> MaxThoughtNumber,
        nextThoughtNeeded |-> (l.thoughtNumber < MaxThoughtNumber),
        isRevision |-> l.isRevision, revisesThought |-> l.revisesThought,
        branchFromThought |-> l.branchFromThought, branchId |-> l.branchId,
        reasoningMode |-> "analytical" ] :
      m \in ModelTypes, ct \in Thinkings, l \in Links }

\* const { modelType, ...commonArgs } = args
commonArgs(args) == [f \in (DOMAIN args) \ {"modelType"} |-> args[f]]

\* Variant: every request goes to both backends
Targets_every(modelType) == Backends

\* Variant: a request for all backends goes to the first one only
Targets_first(modelType) == IF modelType = "all" THEN {"gemini"} ELSE {modelType}

Targets(modelType) == IF modelType = "all" THEN Backends ELSE {modelType}

----------------------------------------------------------------------------
(* Which server class a backend of the combiner is, and its error policy *)

ServerClass(w, b) ==
    IF w = "providers" THEN "OpenRouterProvider"
    ELSE IF b = "gemini" THEN "Gemini" ELSE "OpenRouterLegacy"

ThrowsOnFault(w, b) == ServerClass(w, b) = "OpenRouterProvider"

----------------------------------------------------------------------------
(* Strings *)

\* String(error) of an Error object with the given message
ErrorString(msg) == <<"Error: ">> \o msg

\* ERROR_MESSAGES.GENERATE_THOUGHT(error)
GENERATE_THOUGHT(err) == <<"Error generating thought: ">> \o err

SIMILAR_THINKING == <<"ERROR: The currentThinking parameter must be different for each thought.">>
NO_CONTENT == <<"Error: No content generated">>
NEXT_THOUGHT == "Use this thought as input for next call"
USE_TOOL_HINT == "Consider using the suggested tool before continuing with sequential thinking"

Embeds(text, part) ==
    \E i \in 0..(Len(text) - Len(part)) : SubSeq(text, i + 1, i + Len(part)) = part

PlainText(parts) == [kind |-> "plain", parts |-> parts]

\* JSON.stringify(obj, null, 2): the text of an object
\* (a field whose value is undefined is left out)
JSONstringify(obj) ==
    [kind |-> "json",
     obj |-> [f \in {g \in DOMAIN obj : ~(g = "suggestedToolUse" /\ obj[g].toolType = NoStr)}
                |-> obj[f]]]

\* JSON.parse(text): throws on a text that is no JSON document
JSONparses(text) == text.kind = "json"
JSONparse(text) == text.obj

----------------------------------------------------------------------------
(* Tool-Request Detector (sequential/utils.ts detectToolRequest).           *)
(* A text is a sequence of tokens: words, and the punctuation tokens the    *)
(* patterns care about.  The /i flag of the patterns is Lower().            *)

NoTool == [toolType |-> NoStr, query |-> <<>>]

Lower(t) ==
    CASE t = "I" -> "i" [] t = "Search" -> "search" [] t = "Need" -> "need"
      [] t = "API" -> "api" [] OTHER -> t

LowerAll(text) == [i \in 1..Len(text) |-> Lower(text[i])]

\* characters the captured query may not contain: ["'\n.!?]
Stops == {".", "!", "?", "\n", "\"", "'"}

Modals == {<<"need">>, <<"needs">>, <<"should">>, <<"shoulds">>, <<"must">>, <<"musts">>,
           <<"require">>, <<"requires">>}
Req(alts) == [opt |-> FALSE, alts |-> alts]
Opt(alts) == [opt |-> TRUE, alts |-> alts]
Quote == Opt({<<"\"">>, <<"'">>})

codePattern ==
    << Req(Modals), Opt({<<"to">>}),
       Req({<<"see">>, <<"check">>, <<"review">>, <<"examine">>, <<"analyze">>, <<"retrieve">>,
            <<"get">>, <<"find">>, <<"look", "at">>}),
       Opt({<<"the">>}), Req({<<"code">>}), Opt({<<"for">>}), Opt({<<"in">>}), Opt({<<":">>}), Quote >>

docPattern ==
    << Req(Modals), Opt({<<"to">>}),
       Req({<<"see">>, <<"check">>, <<"review">>, <<"read">>, <<"consult">>, <<"examine">>,
            <<"reference">>}),
       Opt({<<"the">>}), Req({<<"documentation">>}), Opt({<<"for">>, <<"about">>}), Opt({<<":">>}),
       Quote >>

filePattern ==
    << Req(Modals), Opt({<<"to">>}),
       Req({<<"search">>, <<"find">>, <<"locate">>, <<"list">>}),
       Opt({<<"all">>}), Req({<<"file">>, <<"files">>}), Opt({<<"that">>}), Opt({<<"contain">>}),
       Opt({<<":">>}), Quote >>

\* Where the capture group starts when pat[k..] matches text at pos (0: no match).
\* An optional element is taken first and given up when the rest then fails.
RECURSIVE MatchFrom(_, _, _, _)
MatchFrom(text, pos, pat, k) ==
    IF k > Len(pat)
    THEN IF pos <= Len(text) /\ text[pos] \notin Stops THEN pos ELSE 0
    ELSE LET alts == {a \in pat[k].alts :
                        /\ pos + Len(a) - 1 <= Len(text)
                        /\ SubSeq(text, pos, pos + Len(a) - 1) = a}
             take == IF alts = {} THEN 0
                     ELSE MatchFrom(text, pos + Len(CHOOSE a \in alts : TRUE), pat, k + 1)
         IN  IF take > 0 THEN take
             ELSE IF pat[k].opt THEN MatchFrom(text, pos, pat, k + 1) ELSE 0

\* ([^"'\n.!?]+): the longest run of non-stop tokens from pos
RECURSIVE CaptureEnd(_, _)
CaptureEnd(text, pos) ==
    IF pos + 1 <= Len(text) /\ text[pos + 1] \notin Stops THEN CaptureEnd(text, pos + 1) ELSE pos

\* text.match(pattern)?.[1].trim(), or <<>> when the pattern does not match
RegexCapture(text, pat) ==
    LET low == LowerAll(text)
        starts == {i \in 1..Len(text) : MatchFrom(low, i, pat, 1) > 0}
    IN  IF starts = {} THEN <<>>
        ELSE LET i == CHOOSE j \in starts : \A m \in starts : j <= m
                 c == MatchFrom(low, i, pat, 1)
             IN  SubSeq(text, c, CaptureEnd(text, c))

Triggers ==
    { <<"I", "should", "use", "the", "file", "search", "tool">>,
      <<"we", "need", "to", "examine", "the", "code">>,
      <<"using", "the", "code", "retrieval", "tool">>,
      <<"need", "to", "look", "up", "the", "API">> }

Cues == {<<"search", "for">>, <<"look", "for">>, <<"find", "files">>, <<"retrieve", "code">>}

Includes(text, part) ==
    \E i \in 0..(Len(text) - Len(part)) : SubSeq(text, i + 1, i + Len(part)) = part

\* generatedThought.split("\n"): the lines, as pairs <<first, last>> of token positions
LineStarts(text) == {1} \cup {i + 1 : i \in {j \in 1..Len(text) : text[j] = "\n"}}
LineEndFrom(text, s) ==
    LET nls == {j \in s..Len(text) : text[j] = "\n"}
    IN  IF nls = {} THEN Len(text) ELSE (CHOOSE j \in nls : \A m \in nls : j <= m) - 1
Line(text, s) == SubSeq(text, s, LineEndFrom(text, s))

\* line.split(":").pop()?.trim() || "relevant code"
AfterLastColon(line) ==
    LET cs == {j \in 1..Len(line) : line[j] = ":"}
        tail == IF cs = {} THEN line
                ELSE SubSeq(line, (CHOOSE j \in cs : \A m \in cs : j >= m) + 1, Len(line))
    IN  IF tail = <<>> THEN <<"relevant code">> ELSE tail

\* Variant: a detector with a rule for the definition of an identifier
detectToolRequest_symbols(generatedThought) ==
    LET code == RegexCapture(generatedThought, codePattern)
        doc  == RegexCapture(generatedThought, docPattern)
        file == RegexCapture(generatedThought, filePattern)
        cued == {s \in LineStarts(generatedThought) :
                   \E c \in Cues : Includes(LowerAll(Line(generatedThought, s)), c)}
    IN  IF code # <<>> THEN [toolType |-> "code_retrieval", query |-> code]
        ELSE IF doc # <<>> THEN [toolType |-> "documentation", query |-> doc]
        ELSE IF \E k \in 1..(Len(generatedThought) - 2) :
                    SubSeq(generatedThought, k, k + 1) = <<"definition", "of">>
        THEN LET k == CHOOSE n \in 1..(Len(generatedThought) - 2) :
                        SubSeq(generatedThought, n, n + 1) = <<"definition", "of">>
             IN  [toolType |-> "symbol_definition", query |-> <<generatedThought[k + 2]>>]
        ELSE IF file # <<>> THEN [toolType |-> "file_search", query |-> file]
        ELSE IF (\E t \in Triggers : Includes(generatedThought, t)) /\ cued # {}
        THEN LET s == CHOOSE j \in cued : \A m \in cued : j <= m
                 line == Line(generatedThought, s)
             IN  [toolType |-> IF Includes(LowerAll(line), <<"search">>)
                               THEN "file_search" ELSE "code_retrieval",
                  query |-> AfterLastColon(line)]
        ELSE NoTool

\* Variant: the documentation rule is tried before the code rule, and the
\* explicit indicators before any pattern rule
detectToolRequest_docFirst(generatedThought) ==
    LET code == RegexCapture(generatedThought, codePattern)
        doc  == RegexCapture(generatedThought, docPattern)
        file == RegexCapture(generatedThought, filePattern)
        cued == {s \in LineStarts(generatedThought) :
                   \E c \in Cues : Includes(LowerAll(Line(generatedThought, s)), c)}
    IN  IF doc # <<>> THEN [toolType |-> "documentation", query |-> doc]
        ELSE IF code # <<>> THEN [toolType |-> "code_retrieval", query |-> code]
        ELSE IF file # <<>> THEN [toolType |-> "file_search", query |-> file]
        ELSE IF (\E t \in Triggers : Includes(generatedThought, t)) /\ cued # {}
        THEN LET s == CHOOSE j \in cued : \A m \in cued : j <= m
                 line == Line(generatedThought, s)
             IN  [toolType |-> IF Includes(LowerAll(line), <<"search">>)
                               THEN "file_search" ELSE "code_retrieval",
                  query |-> AfterLastColon(line)]
        ELSE NoTool

detectToolRequest(generatedThought) ==
    LET code == RegexCapture(generatedThought, codePattern)
        doc  == RegexCapture(generatedThought, docPattern)
        file == RegexCapture(generatedThought, filePattern)
        cued == {s \in LineStarts(generatedThought) :
                   \E c \in Cues : Includes(LowerAll(Line(generatedThought, s)), c)}
    IN  IF code # <<>> THEN [toolType |-> "code_retrieval", query |-> code]
        ELSE IF doc # <<>> THEN [toolType |-> "documentation", query |-> doc]
        ELSE IF file # <<>> THEN [toolType |-> "file_search", query |-> file]
        ELSE IF (\E t \in Triggers : Includes(generatedThought, t)) /\ cued # {}
        THEN LET s == CHOOSE j \in cued : \A m \in cued : j <= m
                 line == Line(generatedThought, s)
             IN  [toolType |-> IF Includes(LowerAll(line), <<"search">>)
                               THEN "file_search" ELSE "code_retrieval",
                  query |-> AfterLastColon(line)]
        ELSE NoTool

----------------------------------------------------------------------------
(* Single-backend thinking server *)

\* isThinkingTooSimilar
\* Variants of the guard with a plausible slip: the first record instead of the
\* last one, and a guard that never fires.
isThinkingTooSimilar_first(history, currentThinking) ==
    IF Len(history) = 0 THEN FALSE
    ELSE currentThinking = history[1].currentThinking

isThinkingTooSimilar_never(history, currentThinking) == FALSE

\* Variant: the guard looks at every record of the history
isThinkingTooSimilar_any(history, currentThinking) ==
    \E i \in 1..Len(history) : currentThinking = history[i].currentThinking

isThinkingTooSimilar(history, currentThinking) ==
    IF Len(history) = 0 THEN FALSE
    ELSE currentThinking = history[Len(history)].currentThinking

\* The guard's answer: { error: SIMILAR_THINKING, status: "failed" }, isError
SimilarResponse ==
    [isError |-> TRUE,
     content |-> <<JSONstringify([error |-> SIMILAR_THINKING, status |-> "failed"])>>]

\* Variant: the call sleeps for the time elapsed instead of the time remaining
PacingWait_elapsed(lastTs, t) ==
    IF lastTs # 0 /\ t - lastTs < MIN_THINKING_TIME_MS THEN t - lastTs ELSE 0

\* Variant: a session without a timestamp is paced from time 0
PacingWait_unset(lastTs, t) ==
    IF t - lastTs < MIN_THINKING_TIME_MS THEN MIN_THINKING_TIME_MS - (t - lastTs) ELSE 0

\* The pacing gate: how long the call sleeps before it generates
PacingWait(lastTs, t) ==
    IF lastTs # 0 /\ t - lastTs < MIN_THINKING_TIME_MS
    THEN MIN_THINKING_TIME_MS - (t - lastTs) ELSE 0

\* Variants: the query is stored only while none is stored; the query is
\* stored at every prompt
QueryAfterPrompt_once(query, args) == IF query = "" THEN args.currentThinking ELSE query
QueryAfterPrompt_always(query, args) == args.currentThinking

\* buildUserPrompt / generateThoughtWith...: the first lines store the query
QueryAfterPrompt(query, args) ==
    IF args.thoughtNumber = 1 \/ query = "" THEN args.currentThinking ELSE query

\* The text a completion amounts to, per server class; Thrown is the Error message
\* when generation throws instead.
CONTENT_MARK == "\n\n=== CONTENT ===\n"
CombinedOutput(c) ==
    c.reasoning \o (IF c.content # <<>> THEN <<CONTENT_MARK>> \o c.content ELSE <<>>)

\* Outcome of generation: [thrown, thought].  thrown is String(error) or <<>>.
\* Variant: the provider server swallows a fault the way the older servers do
Generate_swallow(class, out) ==
    IF ~out.ok
    THEN [thrown |-> <<>>, thought |-> GENERATE_THOUGHT(ErrorString(<<out.fault>>))]
    ELSE IF class = "Gemini" THEN [thrown |-> <<>>, thought |-> out.completion.content]
    ELSE IF CombinedOutput(out.completion) # <<>>
    THEN [thrown |-> <<>>, thought |-> CombinedOutput(out.completion)]
    ELSE [thrown |-> <<>>, thought |-> NO_CONTENT]

Generate(class, out) ==
    IF class = "OpenRouterProvider"
    THEN IF ~out.ok THEN [thrown |-> ErrorString(<<out.fault>>), thought |-> <<>>]
         ELSE IF CombinedOutput(out.completion) # <<>>
         THEN [thrown |-> <<>>, thought |-> CombinedOutput(out.completion)]
         ELSE [thrown |-> ErrorString(NO_CONTENT), thought |-> <<>>]
    ELSE IF class = "Gemini"
    THEN IF ~out.ok
         THEN [thrown |-> <<>>, thought |-> GENERATE_THOUGHT(ErrorString(<<out.fault>>))]
         ELSE [thrown |-> <<>>, thought |-> out.completion.content]
    ELSE IF ~out.ok
         THEN [thrown |-> <<>>, thought |-> GENERATE_THOUGHT(ErrorString(<<out.fault>>))]
         ELSE IF out.completion.reasoning # <<>>
         THEN [thrown |-> <<>>, thought |-> out.completion.reasoning]
         ELSE [thrown |-> <<>>, thought |-> <<"Error: No reasoning content generated">>]

\* The ThoughtData record of a call
ThoughtData(query, args, generatedThought) ==
    [originalQuery |-> IF query # "" THEN query ELSE args.currentThinking,
     currentThinking |-> args.currentThinking,
     thoughtNumber |-> args.thoughtNumber,
     totalThoughts |-> args.totalThoughts,
     nextThoughtNeeded |-> args.nextThoughtNeeded,
     thought |-> generatedThought,
     isRevision |-> args.isRevision,
     revisesThought |-> args.revisesThought,
     branchFromThought |-> args.branchFromThought,
     branchId |-> args.branchId,
     reasoningMode |-> args.reasoningMode,
     suggestedToolUse |-> detectToolRequest(generatedThought)]

\* Variant: a branchId alone is enough to index the thought
BranchesAfter_anyId(br, args) ==
    IF args.branchId # NoStr /\ args.branchId # ""
    THEN IF args.branchId \in DOMAIN br
         THEN [br EXCEPT ![args.branchId] = Append(@, args.thoughtNumber)]
         ELSE (args.branchId :> <<args.thoughtNumber>>) @@ br
    ELSE br

\* this.branches[args.branchId].push(args.thoughtNumber), the bucket made if absent
BranchesAfter(br, args) ==
    IF args.branchFromThought # 0 /\ args.branchId # NoStr /\ args.branchId # ""
    THEN IF args.branchId \in DOMAIN br
         THEN [br EXCEPT ![args.branchId] = Append(@, args.thoughtNumber)]
         ELSE (args.branchId :> <<args.thoughtNumber>>) @@ br
    ELSE br

\* RESPONSE_HINTS.USE_TOOL(toolType, query)
USE_TOOL(toolType, query) ==
    <<"Consider using the ", toolType, " tool with query: \"">> \o query
        \o <<"\" before continuing with sequential thinking">>

\* Variant: the answer raises totalThoughts to the thoughtNumber
ThoughtResponse_raised(args, generatedThought) ==
    LET toolRequest == detectToolRequest(generatedThought)
    IN  [isError |-> FALSE,
         content |-> <<JSONstringify(
            [thought |-> generatedThought,
             thoughtNumber |-> args.thoughtNumber,
             totalThoughts |-> IF args.thoughtNumber > args.totalThoughts
                               THEN args.thoughtNumber ELSE args.totalThoughts,
             nextThoughtNeeded |-> args.nextThoughtNeeded,
             suggestedToolUse |->
                IF toolRequest # NoTool
                THEN [toolType |-> toolRequest.toolType, query |-> toolRequest.query,
                      message |-> USE_TOOL(toolRequest.toolType, toolRequest.query)]
                ELSE [toolType |-> NoStr, query |-> <<>>, message |-> <<>>],
             hint |-> IF toolRequest # NoTool THEN USE_TOOL_HINT ELSE NEXT_THOUGHT])>>]

\* The answer of a call that committed
ThoughtResponse(args, generatedThought) ==
    LET toolRequest == detectToolRequest(generatedThought)
    IN  [isError |-> FALSE,
         content |-> <<JSONstringify(
            [thought |-> generatedThought,
             thoughtNumber |-> args.thoughtNumber,
             totalThoughts |-> args.totalThoughts,
             nextThoughtNeeded |-> args.nextThoughtNeeded,
             suggestedToolUse |->
                IF toolRequest # NoTool
                THEN [toolType |-> toolRequest.toolType, query |-> toolRequest.query,
                      message |-> USE_TOOL(toolRequest.toolType, toolRequest.query)]
                ELSE [toolType |-> NoStr, query |-> <<>>, message |-> <<>>],
             hint |-> IF toolRequest # NoTool THEN USE_TOOL_HINT ELSE NEXT_THOUGHT])>>]

\* The answer of the catch block of processSequentialThinking
CaughtResponse(class, thrown) ==
    [isError |-> TRUE,
     content |-> <<PlainText(IF class = "OpenRouterProvider" THEN GENERATE_THOUGHT(thrown)
                             ELSE <<"Error: ">> \o thrown)>>]

\* Variant: a revision overwrites the record it revises
HistoryAfter_replace(history, thoughtData) ==
    IF /\ thoughtData.isRevision
       /\ \E i \in 1..Len(history) : history[i].thoughtNumber = thoughtData.revisesThought
    THEN [i \in 1..Len(history) |->
             IF history[i].thoughtNumber = thoughtData.revisesThought
             THEN thoughtData ELSE history[i]]
    ELSE Append(history, thoughtData)

\* this.thoughtHistory.push(thoughtData)
HistoryAfter(history, thoughtData) == Append(history, thoughtData)

\* A call that has not answered yet
NoResult == [isError |-> FALSE, content |-> <<PlainText(<<>>)>>]
NoOutcome == [ok |-> TRUE, completion |-> [reasoning |-> <<>>, content |-> <<>>], fault |-> "<none>"]
NoArgs == [currentThinking |-> ""]
NoSub == [pc |-> "none", args |-> NoArgs, after |-> "none", wakeAt |-> 0, invoked |-> 0,
          outcome |-> NoOutcome, result |-> NoResult]

\* How the call before this one ended, when this call repeats its currentThinking
\* ("none" otherwise); kept with the call for the properties about repeated calls.
\* "kept": the call before committed its record or was rejected by the guard.
After(b, args) ==
    IF prior[b].outcome # "none" /\ prior[b].thinking = args.currentThinking
    THEN IF prior[b].outcome \in {"committed", "rejected"} THEN "kept" ELSE prior[b].outcome
    ELSE "none"

\* Variants of the first part of a call: a request is also refused when it
\* repeats the thoughtNumber of the last record; a request is also refused once
\* the last record said that no further thought is needed
BeginSub_sameNumber(b, args) ==
    LET base == [NoSub EXCEPT !.args = args, !.after = After(b, args)]
        wait == PacingWait(lastThoughtTimestamp[b], now)
        h == thoughtHistory[b]
    IN  IF \/ isThinkingTooSimilar(h, args.currentThinking)
           \/ (h # <<>> /\ h[Len(h)].thoughtNumber = args.thoughtNumber)
        THEN [base EXCEPT !.pc = "done", !.result = SimilarResponse]
        ELSE IF wait > 0
        THEN [base EXCEPT !.pc = "waiting", !.wakeAt = now + wait]
        ELSE [base EXCEPT !.pc = "generating", !.invoked = 1]

BeginSub_finished(b, args) ==
    LET base == [NoSub EXCEPT !.args = args, !.after = After(b, args)]
        wait == PacingWait(lastThoughtTimestamp[b], now)
        h == thoughtHistory[b]
    IN  IF \/ isThinkingTooSimilar(h, args.currentThinking)
           \/ (h # <<>> /\ ~h[Len(h)].nextThoughtNeeded)
        THEN [base EXCEPT !.pc = "done", !.result = SimilarResponse]
        ELSE IF wait > 0
        THEN [base EXCEPT !.pc = "waiting", !.wakeAt = now + wait]
        ELSE [base EXCEPT !.pc = "generating", !.invoked = 1]

\* processSequentialThinking up to its first suspension: the guard, the pacing
\* gate and, when the call need not sleep, the prompt and the model request.
\* Variant: the pacing wait comes before the guard
BeginSub_waitFirst(b, args) ==
    LET base == [NoSub EXCEPT !.args = args, !.after = After(b, args)]
        wait == PacingWait(lastThoughtTimestamp[b], now)
    IN  IF wait > 0
        THEN [base EXCEPT !.pc = "waiting", !.wakeAt = now + wait]
        ELSE IF isThinkingTooSimilar(thoughtHistory[b], args.currentThinking)
        THEN [base EXCEPT !.pc = "done", !.result = SimilarResponse]
        ELSE [base EXCEPT !.pc = "generating", !.invoked = 1]

BeginSub(b, args) ==
    LET base == [NoSub EXCEPT !.args = args, !.after = After(b, args)]
        wait == PacingWait(lastThoughtTimestamp[b], now)
    IN  IF isThinkingTooSimilar(thoughtHistory[b], args.currentThinking)
        THEN [base EXCEPT !.pc = "done", !.result = SimilarResponse]
        ELSE IF wait > 0
        THEN [base EXCEPT !.pc = "waiting", !.wakeAt = now + wait]
        ELSE [base EXCEPT !.pc = "generating", !.invoked = 1]

----------------------------------------------------------------------------
(* Multi-backend combiner *)

GEMINI_FAILED == <<"Gemini processing failed">>
DEEPSEEK_FAILED == <<"DeepSeek processing failed">>

\* The transcript block of one backend
Block(label, args, thought, data) ==
    [kind |-> "block", label |-> label, thought |-> thought,
     thoughtNumber |-> args.thoughtNumber, totalThoughts |-> args.totalThoughts,
     nextThoughtNeeded |-> args.nextThoughtNeeded,
     suggestedTool |-> IF "suggestedToolUse" \in DOMAIN data
                       THEN JSONstringify(data.suggestedToolUse) ELSE PlainText(<<"None">>)]

\* data?.thought || placeholder
ThoughtOr(data, placeholder) ==
    IF "thought" \in DOMAIN data /\ data.thought # <<>> THEN data.thought ELSE placeholder

\* Variants of the both-failed test: || for &&, and the first result alone
AllFailed_or(geminiResult, deepseekResult) == geminiResult.isError \/ deepseekResult.isError

AllFailed_gemini(geminiResult, deepseekResult) == geminiResult.isError

\* if (geminiResult.isError && deepseekResult.isError)
AllFailed(geminiResult, deepseekResult) == geminiResult.isError /\ deepseekResult.isError

\* Variant: the second error text copied from the first result
BothFailedResponse_copy(geminiResult, deepseekResult) ==
    [isError |-> TRUE,
     content |-> <<JSONstringify(
         [error |-> <<"Both models returned errors">>,
          geminiError |-> geminiResult.content[1],
          deepseekError |-> geminiResult.content[1],
          status |-> "failed"])>>]

\* The aggregated error of the combiner
BothFailedResponse(geminiResult, deepseekResult) ==
    [isError |-> TRUE,
     content |-> <<JSONstringify(
         [error |-> <<"Both models returned errors">>,
          geminiError |-> geminiResult.content[1],
          deepseekError |-> deepseekResult.content[1],
          status |-> "failed"])>>]

\* The modelType = "all" branch, once both results are in
CombineAll(args, geminiResult, deepseekResult) ==
    IF AllFailed(geminiResult, deepseekResult)
    THEN BothFailedResponse(geminiResult, deepseekResult)
    ELSE IF \/ (~geminiResult.isError /\ ~JSONparses(geminiResult.content[1]))
            \/ (~deepseekResult.isError /\ ~JSONparses(deepseekResult.content[1]))
    THEN [isError |-> TRUE,
          content |-> <<JSONstringify(
              [error |-> <<"Error parsing model results">>, status |-> "failed"])>>]
    ELSE LET none == [x \in {} |-> x]
             geminiData == IF ~geminiResult.isError
                           THEN JSONparse(geminiResult.content[1]) ELSE none
             deepseekData == IF ~deepseekResult.isError
                             THEN JSONparse(deepseekResult.content[1]) ELSE none
         IN  [isError |-> FALSE,
              content |-> << Block("GEMINI", args, ThoughtOr(geminiData, GEMINI_FAILED), geminiData),
                             Block("DEEPSEEK", args, ThoughtOr(deepseekData, DEEPSEEK_FAILED),
                                   deepseekData) >>]

----------------------------------------------------------------------------
(* State *)

Running(s) == calls[s].pc = "running"

\* calls of the backend that are past the guard and have not committed yet
InFlight(b) ==
    Cardinality({s \in Slots : Running(s) /\ calls[s].sub[b].pc \in {"waiting", "generating"}})

\* An answered call is on its way to the caller; the next step finds it delivered.
Delivered(c) == [s \in Slots |-> IF c[s].pc = "responded" THEN NoCall ELSE c[s]]

Init ==
    /\ wiring \in Wirings
    /\ thoughtHistory = [b \in Backends |-> <<>>]
    /\ branches = [b \in Backends |-> <<>>]
    /\ originalQuery = [b \in Backends |-> ""]
    /\ lastThoughtTimestamp = [b \in Backends |-> 0]
    /\ now = StartTime
    /\ calls = [s \in Slots |-> NoCall]
    /\ prior = [b \in Backends |-> [thinking |-> "", outcome |-> "none"]]
    /\ log = <<>>
    /\ probe = NoProbe

InitProviders == Init /\ wiring = "providers"
InitLegacy == Init /\ wiring = "legacy"

\* The log, the outcome on backend b of its latest call set (a log that is not
\* kept stays empty)
Logged(l, b, outcome) ==
    IF l = <<>> THEN l ELSE [l EXCEPT ![Len(l)].outcome[b] = outcome]

\* The request handler hands a request to the combiner, which starts the
\* backend(s) the modelType names; each runs up to its first suspension.
Call(s, args) ==
    /\ ~Running(s)
    /\ \A t \in Slots : t < s => Running(t)
    /\ \A b \in Targets(args.modelType) :
          \/ Len(thoughtHistory[b]) + InFlight(b) < MaxHistory
          \/ /\ thoughtHistory[b] # <<>>
             /\ Len(thoughtHistory[b]) <= MaxHistory
             /\ thoughtHistory[b][Len(thoughtHistory[b])].currentThinking = args.currentThinking
    /\ LET sub == [b \in Backends |->
                     IF b \in Targets(args.modelType) THEN BeginSub(b, commonArgs(args))
                     ELSE NoSub]
       IN  /\ calls' = [Delivered(calls) EXCEPT ![s] =
                            [pc |-> "running", args |-> args, sub |-> sub, response |-> NoResult]]
           /\ originalQuery' = [b \in Backends |->
                                  IF sub[b].pc = "generating"
                                  THEN QueryAfterPrompt(originalQuery[b], args)
                                  ELSE originalQuery[b]]
           /\ prior' = [b \in Backends |->
                          IF b \in Targets(args.modelType)
                          THEN [thinking |-> args.currentThinking,
                                outcome |-> IF sub[b].pc = "done" THEN "rejected" ELSE "pending"]
                          ELSE prior[b]]
    /\ UNCHANGED <<wiring, thoughtHistory, branches, lastThoughtTimestamp, now, probe>>

\* As Call, when the caller waits for each answer before it sends the next request
CallSerial(s, args) ==
    /\ \A t \in Slots : ~Running(t)
    /\ Call(s, args)
    /\ UNCHANGED log

\* As CallSerial, in a run of at most MaxCalls calls that are written to the log
CallLogged(s, args) ==
    /\ Len(log) < MaxCalls
    /\ \A t \in Slots : ~Running(t)
    /\ Call(s, args)
    /\ log' = Append(log,
                 [args |-> args,
                  outcome |-> [b \in Backends |->
                                 IF b \notin Targets(args.modelType) THEN "none"
                                 ELSE IF calls'[s].sub[b].pc = "done" THEN "rejected"
                                 ELSE "pending"]])

\* The pacing timer of a sleeping call fires: the prompt is built and the model asked
TimerFire(s, b) ==
    /\ Running(s)
    /\ calls[s].sub[b].pc = "waiting"
    /\ now >= calls[s].sub[b].wakeAt
    /\ calls' = [Delivered(calls) EXCEPT ![s].sub[b].pc = "generating", ![s].sub[b].invoked = @ + 1]
    /\ originalQuery' = [originalQuery EXCEPT ![b] = QueryAfterPrompt(@, calls[s].sub[b].args)]
    /\ UNCHANGED <<wiring, thoughtHistory, branches, lastThoughtTimestamp, now, prior, log, probe>>

\* Variant: the guard is applied once more before the record is appended
ModelReturn_recheck(s, b, out) ==
    /\ Running(s)
    /\ calls[s].sub[b].pc = "generating"
    /\ LET args == calls[s].sub[b].args
           class == ServerClass(wiring, b)
           gen == Generate(class, out)
       IN  IF gen.thrown # <<>>
           THEN /\ calls' = [Delivered(calls) EXCEPT
                                ![s].sub[b].pc = "done", ![s].sub[b].outcome = out,
                                ![s].sub[b].result = CaughtResponse(class, gen.thrown)]
                /\ prior' = [prior EXCEPT ![b].outcome = "failed"]
                /\ log' = Logged(log, b, "failed")
                /\ UNCHANGED <<thoughtHistory, branches, lastThoughtTimestamp>>
           ELSE IF isThinkingTooSimilar(thoughtHistory[b], args.currentThinking)
           THEN /\ calls' = [Delivered(calls) EXCEPT
                                ![s].sub[b].pc = "done", ![s].sub[b].outcome = out,
                                ![s].sub[b].result = SimilarResponse]
                /\ prior' = [prior EXCEPT ![b].outcome = "rejected"]
                /\ log' = Logged(log, b, "rejected")
                /\ UNCHANGED <<thoughtHistory, branches, lastThoughtTimestamp>>
           ELSE /\ thoughtHistory' = [thoughtHistory EXCEPT ![b] =
                        HistoryAfter(@, ThoughtData(originalQuery[b], args, gen.thought))]
                /\ prior' = [prior EXCEPT ![b].outcome = "committed"]
                /\ log' = Logged(log, b, "committed")
                /\ lastThoughtTimestamp' = [lastThoughtTimestamp EXCEPT ![b] = now]
                /\ branches' = [branches EXCEPT ![b] = BranchesAfter(@, args)]
                /\ calls' = [Delivered(calls) EXCEPT
                                ![s].sub[b].pc = "done", ![s].sub[b].outcome = out,
                                ![s].sub[b].result = ThoughtResponse(args, gen.thought)]
    /\ UNCHANGED <<wiring, originalQuery, now, probe>>

\* The model backend answers; the rest of processSequentialThinking runs
ModelReturn(s, b, out) ==
    /\ Running(s)
    /\ calls[s].sub[b].pc = "generating"
    /\ LET args == calls[s].sub[b].args
           class == ServerClass(wiring, b)
           gen == Generate(class, out)
       IN  IF gen.thrown # <<>>
           THEN /\ calls' = [Delivered(calls) EXCEPT
                                ![s].sub[b].pc = "done", ![s].sub[b].outcome = out,
                                ![s].sub[b].result = CaughtResponse(class, gen.thrown)]
                /\ prior' = [prior EXCEPT ![b].outcome = "failed"]
                /\ log' = Logged(log, b, "failed")
                /\ UNCHANGED <<thoughtHistory, branches, lastThoughtTimestamp>>
           ELSE /\ thoughtHistory' = [thoughtHistory EXCEPT ![b] =
                        HistoryAfter(@, ThoughtData(originalQuery[b], args, gen.thought))]
                /\ prior' = [prior EXCEPT ![b].outcome = "committed"]
                /\ log' = Logged(log, b, "committed")
                /\ lastThoughtTimestamp' = [lastThoughtTimestamp EXCEPT ![b] = now]
                /\ branches' = [branches EXCEPT ![b] = BranchesAfter(@, args)]
                /\ calls' = [Delivered(calls) EXCEPT
                                ![s].sub[b].pc = "done", ![s].sub[b].outcome = out,
                                ![s].sub[b].result = ThoughtResponse(args, gen.thought)]
    /\ UNCHANGED <<wiring, originalQuery, now, probe>>

\* Variant: the join gives up at the first backend that answers an error
Settled_failfast(s) ==
    \/ \A b \in Targets(calls[s].args.modelType) : calls[s].sub[b].pc = "done"
    \/ \E b \in Targets(calls[s].args.modelType) :
          calls[s].sub[b].pc = "done" /\ calls[s].sub[b].result.isError

\* Variant: the join waits for both backends whatever the modelType
Settled_every(s) == \A b \in Backends : calls[s].sub[b].pc = "done"

\* await Promise.all([...]) / await of the one backend: every backend the call
\* started has settled
Settled(s) == \A b \in Targets(calls[s].args.modelType) : calls[s].sub[b].pc = "done"

\* Variant: the blocks of the combined answer in the order in which the
\* backends committed
Join_arrival(s) ==
    /\ Running(s)
    /\ Settled(s)
    /\ calls' = [Delivered(calls) EXCEPT
                    ![s].pc = "responded",
                    ![s].response =
                        IF calls[s].args.modelType = "all"
                        THEN LET r == CombineAll(calls[s].args, calls[s].sub["gemini"].result,
                                                 calls[s].sub["deepseek"].result)
                             IN  IF /\ ~r.isError
                                    /\ lastThoughtTimestamp["deepseek"]
                                          < lastThoughtTimestamp["gemini"]
                                 THEN [r EXCEPT !.content = <<r.content[2], r.content[1]>>]
                                 ELSE r
                        ELSE calls[s].sub[calls[s].args.modelType].result]
    /\ UNCHANGED <<wiring, thoughtHistory, branches, originalQuery, lastThoughtTimestamp, now,
                   prior, log, probe>>

\* The combiner answers
Join(s) ==
    /\ Running(s)
    /\ Settled(s)
    /\ calls' = [Delivered(calls) EXCEPT
                    ![s].pc = "responded",
                    ![s].response =
                        IF calls[s].args.modelType = "all"
                        THEN CombineAll(calls[s].args, calls[s].sub["gemini"].result,
                                        calls[s].sub["deepseek"].result)
                        ELSE calls[s].sub[calls[s].args.modelType].result]
    /\ UNCHANGED <<wiring, thoughtHistory, branches, originalQuery, lastThoughtTimestamp, now,
                   prior, log, probe>>

\* Time passes
Tick ==
    /\ now < StartTime + MaxTicks * TickMs
    /\ now' = now + TickMs
    /\ calls' = Delivered(calls)
    /\ UNCHANGED <<wiring, thoughtHistory, branches, originalQuery, lastThoughtTimestamp, prior,
                   log, probe>>

\* The caller serializes its requests (the contract of the engine)
Next ==
    \/ \E s \in Slots, args \in Requests : CallSerial(s, args)
    \/ \E s \in Slots, b \in Backends : TimerFire(s, b)
    \/ \E s \in Slots, b \in Backends : \E out \in ModelOutcomes(b) : ModelReturn(s, b, out)
    \/ \E s \in Slots : Join(s)
    \/ Tick

Spec == Init /\ [][Next]_vars

\* The build of src/modules/sequential/index.ts alone, and that of part_001 alone
SpecProviders == InitProviders /\ [][Next]_vars
SpecLegacy == InitLegacy /\ [][Next]_vars

\* Runs of at most MaxCalls calls for the gemini backend of either build, each
\* written to the log. The requests: a first thought; a second thought that
\* revises and branches from thought 1; a thought numbered past totalThoughts
\* that names a branch without branchFromThought; a thought that branches from a
\* thought number never sent, without a branchId.
SessionLinks ==
    { [thoughtNumber |-> 1, nextThoughtNeeded |-> TRUE, isRevision |-> FALSE,
       revisesThought |-> 0, branchFromThought |-> 0, branchId |-> NoStr],
      [thoughtNumber |-> 2, nextThoughtNeeded |-> FALSE, isRevision |-> TRUE,
       revisesThought |-> 1, branchFromThought |-> 1, branchId |-> "b1"],
      [thoughtNumber |-> 3, nextThoughtNeeded |-> TRUE, isRevision |-> FALSE,
       revisesThought |-> 0, branchFromThought |-> 0, branchId |-> "b1"],
      [thoughtNumber |-> 2, nextThoughtNeeded |-> FALSE, isRevision |-> FALSE,
       revisesThought |-> 0, branchFromThought |-> 3, branchId |-> NoStr] }

SessionRequests ==
    { [ modelType |-> "gemini", currentThinking |-> ct, thoughtNumber |-> l.thoughtNumber,
        totalThoughts |-> 2, nextThoughtNeeded |-> l.nextThoughtNeeded,
        isRevision |-> l.isRevision, revisesThought |-> l.revisesThought,
        branchFromThought |-> l.branchFromThought, branchId |-> l.branchId,
        reasoningMode |-> "analytical" ] :
      ct \in Thinkings, l \in SessionLinks }

\* What the model may answer: as ModelOutcomes, and a text that asks for a tool
ToolCompletion ==
    [reasoning |-> <<>>,
     content |-> <<"I", "need", "to", "check", "the", "code", "for", "parser", ".">>]
SessionOutcomes ==
    ModelOutcomes("gemini")
        \cup {[ok |-> TRUE, completion |-> ToolCompletion, fault |-> NoStr]}

\* The request handler of the server (tool execution)
TOOL_NAME == "combined-sequential-thinking"
ToolNames == {TOOL_NAME, "reflection"}

\* Arguments as they arrive: first thoughts of SessionRequests, and some the
\* schema refuses: no currentThinking, a thoughtNumber of 0, both
RawArguments ==
    {r \in SessionRequests : r.thoughtNumber = 1}
        \cup {[a EXCEPT !.currentThinking = NoStr] : a \in {r \in SessionRequests : r.thoughtNumber = 1}}
        \cup {[a EXCEPT !.thoughtNumber = 0] :
                 a \in {r \in SessionRequests : r.thoughtNumber = 1 /\ r.currentThinking = "A"}}
        \cup {[a EXCEPT !.thoughtNumber = 0, !.currentThinking = NoStr] :
                 a \in {r \in SessionRequests : r.thoughtNumber = 1 /\ r.currentThinking = "A"}}

\* Variant: the schema lets everything through
SchemaIssues_none(args) == <<>>

\* CombinedSequentialThinkingSchema.parse(args): the issues of the ZodError, in
\* the order of the schema's fields (none: the arguments are valid)
SchemaIssues(args) ==
    (IF args.currentThinking = NoStr
     THEN <<[path |-> <<"currentThinking">>, message |-> "Required"]>> ELSE <<>>)
    \o (IF args.thoughtNumber <= 0
        THEN <<[path |-> <<"thoughtNumber">>, message |-> "Number must be greater than 0"]>>
        ELSE <<>>)
    \o (IF args.totalThoughts <= 0
        THEN <<[path |-> <<"totalThoughts">>, message |-> "Number must be greater than 0"]>>
        ELSE <<>>)

\* parts.join(sep)
RECURSIVE JoinWith(_, _)
JoinWith(parts, sep) ==
    IF parts = <<>> THEN <<>>
    ELSE IF Len(parts) = 1 THEN parts[1]
    ELSE parts[1] \o <<sep>> \o JoinWith(Tail(parts), sep)

\* error.errors.map((e) => `${e.path.join(".")}: ${e.message}`).join(", ")
IssueTexts(issues) ==
    JoinWith([i \in 1..Len(issues) |->
                 JoinWith([j \in 1..Len(issues[i].path) |-> <<issues[i].path[j]>>], ".")
                    \o <<": ", issues[i].message>>], ", ")

UnknownToolResponse(name) ==
    [isError |-> TRUE, content |-> <<PlainText(<<"Unknown tool: ", name>>)>>]

InvalidArgumentsResponse(issues) ==
    [isError |-> TRUE, content |-> <<PlainText(<<"Invalid arguments: ">> \o IssueTexts(issues))>>]

\* The handler answers by itself
Refuse(s, name, args, response) ==
    /\ \A t \in Slots : ~Running(t)
    /\ \A t \in Slots : t < s => Running(t)
    /\ calls' = [Delivered(calls) EXCEPT ![s] =
                    [pc |-> "responded", name |-> name, args |-> args,
                     sub |-> [b \in Backends |-> NoSub], response |-> response]]
    /\ UNCHANGED <<wiring, thoughtHistory, branches, originalQuery, lastThoughtTimestamp, now,
                   prior, log, probe>>

\* server.setRequestHandler(CallToolRequestSchema, ...)
Dispatch(s, name, args) ==
    IF name # TOOL_NAME THEN Refuse(s, name, args, UnknownToolResponse(name))
    ELSE IF SchemaIssues(args) # <<>>
    THEN Refuse(s, name, args, InvalidArgumentsResponse(SchemaIssues(args)))
    ELSE CallLogged(s, args)

NextSession ==
    \/ \E s \in Slots, args \in SessionRequests : CallLogged(s, args)
    \/ \E s \in Slots : TimerFire(s, "gemini")
    \/ \E s \in Slots : \E out \in SessionOutcomes : ModelReturn(s, "gemini", out)
    \/ \E s \in Slots : Join(s)
    \/ Tick

SpecSession == Init /\ [][NextSession]_vars

\* The same runs, through the request handler
NextDispatch ==
    \/ \E s \in Slots, name \in ToolNames, args \in RawArguments : Dispatch(s, name, args)
    \/ \E s \in Slots : TimerFire(s, "gemini")
    \/ \E s \in Slots : \E out \in ModelOutcomes("gemini") : ModelReturn(s, "gemini", out)
    \/ \E s \in Slots : Join(s)
    \/ Tick

SpecDispatch == Init /\ [][NextDispatch]_vars

\* Time passes until the timer of a sleeping call is due
Elapse ==
    /\ \E s \in Slots, b \in Backends :
          /\ Running(s) /\ calls[s].sub[b].pc = "waiting"
          /\ now < calls[s].sub[b].wakeAt
          /\ now' = calls[s].sub[b].wakeAt
    /\ calls' = Delivered(calls)
    /\ UNCHANGED <<wiring, thoughtHistory, branches, originalQuery, lastThoughtTimestamp, prior,
                   log, probe>>

\* First thoughts for every modelType, with timers that always come due, in the
\* build of src/modules/sequential/index.ts
LiveRequests == {r \in Requests : r.thoughtNumber = 1}

NextLive ==
    \/ \E s \in Slots, args \in LiveRequests : CallSerial(s, args)
    \/ \E s \in Slots, b \in Backends : TimerFire(s, b)
    \/ \E s \in Slots, b \in Backends : \E out \in ModelOutcomes(b) : ModelReturn(s, b, out)
    \/ \E s \in Slots : Join(s)
    \/ Tick
    \/ Elapse

\* The event loop runs every continuation that is ready, every timer comes
\* due, and every model request returns or faults
Fairness ==
    /\ \A s \in Slots, b \in Backends : WF_vars(TimerFire(s, b))
    /\ \A s \in Slots, b \in Backends : WF_vars(\E out \in ModelOutcomes(b) : ModelReturn(s, b, out))
    /\ \A s \in Slots : WF_vars(Join(s))
    /\ WF_vars(Elapse)

SpecLive == InitProviders /\ [][NextLive]_vars /\ Fairness

----------------------------------------------------------------------------
(* Code context (code/context.ts formatCodeContext). Texts are sequences of *)
(* tokens: the fixed pieces of the template and the values put into them.  *)
(* The code fence (three grave accents) is written as three apostrophes.   *)

NoLine == 0 - 1
NoError == [present |-> FALSE, message |-> "", stack |-> ""]
NoProject == [present |-> FALSE, structure |-> "", dependencies |-> <<>>]

\* `- ${symbol.name} (${symbol.type})`, ` at line ${symbol.line}` when it has one
SymbolLine(symbol) ==
    <<"- ", symbol.name, " (", symbol.type, ")">>
        \o (IF symbol.line # NoLine THEN <<" at line ", ToString(symbol.line)>> ELSE <<>>)
        \o <<"\n">>

RECURSIVE Flatten(_)
Flatten(texts) == IF texts = <<>> THEN <<>> ELSE texts[1] \o Flatten(Tail(texts))

\* the body of the loop over codeContext.files
FileSection(file) ==
    <<"**File:** ", file.path>>
        \o (IF file.language # "" THEN <<" (", file.language, ")">> ELSE <<>>)
        \o <<"\n">>
        \o (IF file.startLine # NoLine /\ file.endLine # NoLine
            THEN <<"Lines ", ToString(file.startLine), "-", ToString(file.endLine), "\n">>
            ELSE <<>>)
        \o (IF file.snippet # ""
            THEN <<"'''">> \o (IF file.language # "" THEN <<file.language>> ELSE <<>>)
                    \o <<"\n", file.snippet, "\n'''\n">>
            ELSE <<>>)
        \o (IF file.symbols # <<>>
            THEN <<"\n**Relevant Symbols:**\n">>
                    \o Flatten([i \in 1..Len(file.symbols) |-> SymbolLine(file.symbols[i])])
                    \o <<"\n">>
            ELSE <<>>)

\* if (codeContext.projectInfo) { ... }
ProjectSection(projectInfo) ==
    IF projectInfo.present
    THEN <<"\n**Project Information:**\n">>
            \o (IF projectInfo.structure # ""
                THEN <<"Structure: ", projectInfo.structure, "\n">> ELSE <<>>)
            \o (IF projectInfo.dependencies # <<>>
                THEN <<"Dependencies: ">>
                        \o JoinWith([i \in 1..Len(projectInfo.dependencies) |->
                                        <<projectInfo.dependencies[i]>>], ", ")
                        \o <<"\n">>
                ELSE <<>>)
    ELSE <<>>

\* if (codeContext.error && (codeContext.error.message || codeContext.error.stack))
ErrorSection(error) ==
    IF error.present /\ (error.message # "" \/ error.stack # "")
    THEN <<"\n**Error Information:**\n">>
            \o (IF error.message # "" THEN <<"Error: ", error.message, "\n">> ELSE <<>>)
            \o (IF error.stack # "" THEN <<"'''\n", error.stack, "\n'''\n">> ELSE <<>>)
    ELSE <<>>

formatCodeContext(codeContext) ==
    <<"\n\n**Code Context:**\n">>
        \o (IF codeContext.query # NoStr /\ codeContext.query # ""
            THEN <<"Question about: ", codeContext.query, "\n\n">> ELSE <<>>)
        \o Flatten([i \in 1..Len(codeContext.files) |-> FileSection(codeContext.files[i])])
        \o ErrorSection(codeContext.error)
        \o ProjectSection(codeContext.projectInfo)

----------------------------------------------------------------------------
(* The prompt of a thought (buildUserPrompt of the provider server,        *)
(* generateThoughtWithGemini of the Gemini server), as a token sequence.   *)

\* `${num}` of an optional number
Num(n) == IF n = 0 THEN "undefined" ELSE ToString(n)

\* Array.prototype.sort with (a, b) => dir * (a.thoughtNumber - b.thoughtNumber):
\* stable, so records of equal thoughtNumber keep their order
RECURSIVE SortByThoughtNumber(_, _)
SortByThoughtNumber(ts, dir) ==
    IF ts = <<>> THEN <<>>
    ELSE LET rest == SortByThoughtNumber(SubSeq(ts, 1, Len(ts) - 1), dir)
             x    == ts[Len(ts)]
             pos  == Cardinality({j \in 1..Len(rest) :
                        dir * rest[j].thoughtNumber <= dir * x.thoughtNumber})
         IN  SubSeq(rest, 1, pos) \o <<x>> \o SubSeq(rest, pos + 1, Len(rest))

\* .filter(t => t.thoughtNumber < args.thoughtNumber)
\* .sort((a, b) => b.thoughtNumber - a.thoughtNumber).slice(0, 2), and then
\* .sort((a, b) => a.thoughtNumber - b.thoughtNumber)
prevThoughts(history, args) ==
    IF args.thoughtNumber > 1
    THEN LET earlier == SelectSeq(history, LAMBDA t : t.thoughtNumber < args.thoughtNumber)
             sorted  == SortByThoughtNumber(earlier, 0 - 1)
             top     == SubSeq(sorted, 1, IF Len(sorted) > 2 THEN 2 ELSE Len(sorted))
         IN  SortByThoughtNumber(top, 1)
    ELSE <<>>

\* `Previous Thought #${t.thoughtNumber}:\n${t.thought}`
PreviousThought(t) == <<"Previous Thought #", ToString(t.thoughtNumber), ":\n">> \o t.thought

\* `\n\nPrevious thinking:\n${previousThoughts}\n\n`, or nothing
PreviousThinking(history, args) ==
    LET prev == prevThoughts(history, args)
    IN  IF prev = <<>> THEN <<>>
        ELSE <<"\n\nPrevious thinking:\n">>
                \o JoinWith([i \in 1..Len(prev) |-> PreviousThought(prev[i])], "\n\n")
                \o <<"\n\n">>

\* USER_PROMPT_SECTIONS and STATUS of providers/constants.ts
HEADER(thoughtNumber, totalThoughts) ==
    <<"**Sequential Constructive Criticism - Thought #", ToString(thoughtNumber),
      " of ", ToString(totalThoughts), "**">>
ORIGINAL_REQUEST(query) == <<"**Original Request:** ", query>>
CURRENT_THINKING(thinking) == <<"**Current Thinking:** ", thinking>>
USER_CONTEXT(context) == <<"\n\n**User-Provided Context:**\n", context, "\n\n">>
EXTERNAL_TOOL_RESULTS(tool, query, result) ==
    <<"\n\n**External Tool Results:**\nTool Used: ", tool, "\nQuery: ", query,
      "\nResult: \n", result, "\n\nPlease incorporate this information into your thinking.">>
TASK_INSTRUCTIONS(thoughtNumber) ==
    <<"**Your Task for This Thought:**\nProvide constructive criticism for this ",
      IF thoughtNumber = 1 THEN "initial" ELSE "next",
      " stage. Follow these steps:">>
FIRST_THOUGHT == "This is the first thought in our analysis."
THOUGHT_NUMBER(num) == <<"This is Thought #", ToString(num), " in our sequential analysis.">>
REVISION(num) == <<" This revises Thought #", Num(num), ".">>
BRANCH(num) == <<" This branches from Thought #", Num(num), ".">>
FINAL_THOUGHT ==
    "\n\nThis is the final thought in our sequence. Consider providing a conclusion."

\* userContextSection of both servers
UserContextSection(userContext) ==
    IF userContext.type = "string" /\ userContext.text # ""
    THEN USER_CONTEXT(userContext.text)
    ELSE IF userContext.type = "codeContext" THEN formatCodeContext(userContext)
    ELSE <<>>

NoToolResult == [toolType |-> NoStr, query |-> "", result |-> ""]
NoContext == [type |-> "none"]

\* intro of buildUserPrompt
Intro(args) ==
    (IF args.thoughtNumber = 1 THEN <<FIRST_THOUGHT>> ELSE THOUGHT_NUMBER(args.thoughtNumber))
        \o (IF args.isRevision THEN REVISION(args.revisesThought) ELSE <<>>)

\* intro of generateThoughtWithGemini
GeminiIntro(args) ==
    (IF args.thoughtNumber = 1 THEN <<FIRST_THOUGHT>> ELSE THOUGHT_NUMBER(args.thoughtNumber))
        \o (IF args.isRevision THEN REVISION(args.revisesThought)
            ELSE IF args.branchFromThought # 0 THEN BRANCH(args.branchFromThought)
            ELSE <<>>)

\* Variant: the conclusion is asked for only at the very thought announced as last
Ending_exact(args) ==
    IF args.thoughtNumber = args.totalThoughts THEN <<FINAL_THOUGHT>> ELSE <<>>

\* isLastThought ? STATUS.FINAL_THOUGHT : ""
Ending(args) ==
    IF args.thoughtNumber >= args.totalThoughts THEN <<FINAL_THOUGHT>> ELSE <<>>

Constraints(args) ==
    IF args.reasoningMode # NoStr /\ args.reasoningMode # ""
    THEN <<"Apply ", args.reasoningMode, " reasoning to this thought.">>
    ELSE <<>>

\* Variant: a request that asks for more thoughts is told so in the prompt
buildUserPrompt_moreThoughts(this, args) ==
    LET query == QueryAfterPrompt(this.originalQuery, args)
    IN  <<"\n">> \o HEADER(args.thoughtNumber, args.totalThoughts) \o <<"\n\n">>
            \o ORIGINAL_REQUEST(query)
            \o UserContextSection(args.userContext)
            \o CURRENT_THINKING(args.currentThinking) \o <<"\n\n">>
            \o Intro(args)
            \o PreviousThinking(this.thoughtHistory, args)
            \o (IF args.externalToolResult # NoToolResult
                THEN EXTERNAL_TOOL_RESULTS(args.externalToolResult.toolType,
                        args.externalToolResult.query, args.externalToolResult.result)
                ELSE <<>>)
            \o (IF args.needsMoreThoughts = "true" THEN <<>> ELSE Ending(args))
            \o <<"\n\n">> \o TASK_INSTRUCTIONS(args.thoughtNumber)
            \o <<"\n\nConsider the user context (if provided), previous thoughts, and current thinking to provide valuable feedback.\n\n">>
            \o (IF Constraints(args) # <<>> THEN Constraints(args)
                ELSE <<"Ensure all feedback is specific, actionable, and presented with a constructive tone.">>)
            \o <<"\n\nYour response should be a cohesive critique that helps improve and refine the subject matter.\n">>

\* buildUserPrompt of the provider server; `this` is the session of the server
buildUserPrompt(this, args) ==
    LET query == QueryAfterPrompt(this.originalQuery, args)
    IN  <<"\n">> \o HEADER(args.thoughtNumber, args.totalThoughts) \o <<"\n\n">>
            \o ORIGINAL_REQUEST(query)
            \o UserContextSection(args.userContext)
            \o CURRENT_THINKING(args.currentThinking) \o <<"\n\n">>
            \o Intro(args)
            \o PreviousThinking(this.thoughtHistory, args)
            \o (IF args.externalToolResult # NoToolResult
                THEN EXTERNAL_TOOL_RESULTS(args.externalToolResult.toolType,
                        args.externalToolResult.query, args.externalToolResult.result)
                ELSE <<>>)
            \o Ending(args)
            \o <<"\n\n">> \o TASK_INSTRUCTIONS(args.thoughtNumber)
            \o <<"\n\nConsider the user context (if provided), previous thoughts, and current thinking to provide valuable feedback.\n\n">>
            \o (IF Constraints(args) # <<>> THEN Constraints(args)
                ELSE <<"Ensure all feedback is specific, actionable, and presented with a constructive tone.">>)
            \o <<"\n\nYour response should be a cohesive critique that helps improve and refine the subject matter.\n">>

\* the prompt of generateThoughtWithGemini
GeminiPrompt(this, args) ==
    LET query == QueryAfterPrompt(this.originalQuery, args)
    IN  <<"\n**Your Role:** You are an AI assistant analyzing a complex problem through sequential thinking. This is Thought #",
          ToString(args.thoughtNumber), " of ", ToString(args.totalThoughts), ".\n\n">>
            \o ORIGINAL_REQUEST(query)
            \o UserContextSection(args.userContext)
            \o CURRENT_THINKING(args.currentThinking) \o <<"\n\n">>
            \o GeminiIntro(args)
            \o PreviousThinking(this.thoughtHistory, args)
            \o (IF args.externalToolResult # NoToolResult
                THEN <<"\n">> \o EXTERNAL_TOOL_RESULTS(args.externalToolResult.toolType,
                        args.externalToolResult.query, args.externalToolResult.result)
                     \o <<"\n">>
                ELSE <<>>)
            \o Ending(args)
            \o <<"\n\n**Your Task for This Thought:**\nProvide the next logical step in our reasoning process. Consider the user context (if provided), previous thoughts, and current thinking to advance our understanding.\n\n">>
            \o Constraints(args)
            \o <<"\n\nYour response should be a cohesive thought that moves our analysis forward.\n">>

\* SYSTEM_PROMPTS[reasoningMode?.toLowerCase() || "analytical"]; the Gemini
\* server sends no system message
SystemPrompt(class, args) ==
    IF class = "OpenRouterProvider"
    THEN <<"SYSTEM_PROMPTS.", IF args.reasoningMode \in {NoStr, ""} THEN "analytical"
                              ELSE args.reasoningMode>>
    ELSE <<>>

\* Variant: the prompt ends with the branches of the session
Messages_branches(class, this, args) ==
    [system |-> SystemPrompt(class, args),
     user   |-> (IF class = "OpenRouterProvider" THEN buildUserPrompt(this, args)
                 ELSE GeminiPrompt(this, args))
                    \o (IF this.branches # <<>> THEN <<"Branches so far: b1">> ELSE <<>>)]

\* The messages the server of a class sends to its model
Messages(class, this, args) ==
    [system |-> SystemPrompt(class, args),
     user   |-> IF class = "OpenRouterProvider" THEN buildUserPrompt(this, args)
                ELSE GeminiPrompt(this, args)]

----------------------------------------------------------------------------
(* One server on its own: calls that do not overlap and whose model        *)
(* answers with text. A step is a whole call of processSequentialThinking; *)
(* probe keeps what the call was given, what it sent and what it answered. *)

MaxPromptHistory == 3

\* thoughtNumber and references of the requests: plain thoughts 1 to 3, a
\* revision, a branch, a thought that is both, a revision that names no thought
PromptLinks ==
    { [thoughtNumber |-> 1, isRevision |-> FALSE, revisesThought |-> 0,
       branchFromThought |-> 0, branchId |-> NoStr],
      [thoughtNumber |-> 2, isRevision |-> FALSE, revisesThought |-> 0,
       branchFromThought |-> 0, branchId |-> NoStr],
      [thoughtNumber |-> 2, isRevision |-> TRUE, revisesThought |-> 1,
       branchFromThought |-> 0, branchId |-> NoStr],
      [thoughtNumber |-> 2, isRevision |-> FALSE, revisesThought |-> 0,
       branchFromThought |-> 1, branchId |-> "b1"],
      [thoughtNumber |-> 2, isRevision |-> TRUE, revisesThought |-> 1,
       branchFromThought |-> 1, branchId |-> "b1"],
      [thoughtNumber |-> 3, isRevision |-> FALSE, revisesThought |-> 0,
       branchFromThought |-> 0, branchId |-> NoStr],
      [thoughtNumber |-> 3, isRevision |-> TRUE, revisesThought |-> 0,
       branchFromThought |-> 0, branchId |-> NoStr] }

NeedsMoreThoughts == {"undefined", "true", "false"}
ToolResult == [toolType |-> "code_retrieval", query |-> "parser", result |-> "fn parse"]

\* The optional fields that a request carries besides its references
Extras ==
    { [needsMoreThoughts |-> "undefined", externalToolResult |-> NoToolResult,
       userContext |-> NoContext],
      [needsMoreThoughts |-> "true", externalToolResult |-> ToolResult,
       userContext |-> NoContext],
      [needsMoreThoughts |-> "false", externalToolResult |-> NoToolResult,
       userContext |-> [type |-> "string", text |-> "ctx"]],
      [needsMoreThoughts |-> "true", externalToolResult |-> NoToolResult,
       userContext |-> NoContext] }

PromptRequests ==
    { [ currentThinking |-> ct, thoughtNumber |-> l.thoughtNumber,
        totalThoughts |-> MaxThoughtNumber,
        nextThoughtNeeded |-> (l.thoughtNumber < MaxThoughtNumber),
        isRevision |-> l.isRevision, revisesThought |-> l.revisesThought,
        branchFromThought |-> l.branchFromThought, branchId |-> l.branchId,
        reasoningMode |-> "analytical",
        needsMoreThoughts |-> x.needsMoreThoughts,
        externalToolResult |-> x.externalToolResult, userContext |-> x.userContext ] :
      ct \in Thinkings, l \in PromptLinks, x \in Extras }

\* this.* of the server of backend b
This(b) ==
    [thoughtHistory |-> thoughtHistory[b], branches |-> branches[b],
     originalQuery |-> originalQuery[b], lastThoughtTimestamp |-> lastThoughtTimestamp[b]]

NoMessages == [system |-> <<>>, user |-> <<>>]

\* What a call does to the session it finds, given the text of the model
ThinkResult(class, this, args, generatedThought) ==
    IF isThinkingTooSimilar(this.thoughtHistory, args.currentThinking)
    THEN [messages |-> NoMessages, thoughtHistory |-> this.thoughtHistory,
          branches |-> this.branches, originalQuery |-> this.originalQuery,
          response |-> SimilarResponse]
    ELSE LET query == QueryAfterPrompt(this.originalQuery, args)
         IN  [messages |-> Messages(class, this, args),
              thoughtHistory |->
                HistoryAfter(this.thoughtHistory, ThoughtData(query, args, generatedThought)),
              branches |-> BranchesAfter(this.branches, args),
              originalQuery |-> query,
              response |-> ThoughtResponse(args, generatedThought)]

\* the text of the model names the call it answers
ThoughtOf(history) == <<"thought", ToString(Len(history) + 1)>>

\* A call that passes the guard (the refusal of the guard is a step of Call)
Think(b, args) ==
    /\ ~isThinkingTooSimilar(thoughtHistory[b], args.currentThinking)
    /\ LET class == ServerClass(wiring, b)
           this == This(b)
           wait == PacingWait(this.lastThoughtTimestamp, now)
           generatedThought == ThoughtOf(this.thoughtHistory)
           result == ThinkResult(class, this, args, generatedThought)
       IN  /\ thoughtHistory' = [thoughtHistory EXCEPT ![b] = result.thoughtHistory]
           /\ branches' = [branches EXCEPT ![b] = result.branches]
           /\ originalQuery' = [originalQuery EXCEPT ![b] = result.originalQuery]
           /\ now' = now + wait
           /\ lastThoughtTimestamp' = [lastThoughtTimestamp EXCEPT ![b] = now + wait]
           /\ probe' = [fn |-> "think", class |-> class, this |-> this, args |-> args,
                        thought |-> generatedThought, waited |-> wait,
                        messages |-> result.messages, response |-> result.response]
    /\ UNCHANGED <<wiring, calls, prior, log>>

NextPrompt ==
    /\ Len(thoughtHistory["gemini"]) < MaxPromptHistory
    /\ \E args \in PromptRequests : Think("gemini", args)

SpecPrompt == Init /\ [][NextPrompt]_vars

\* Longer runs of plainer requests: thoughts 1 to 3 and a revision of thought 1
\* that is sent under the number 1
MaxSelectHistory == 4

SelectLinks ==
    { [thoughtNumber |-> 1, isRevision |-> FALSE, revisesThought |-> 0],
      [thoughtNumber |-> 1, isRevision |-> TRUE, revisesThought |-> 1],
      [thoughtNumber |-> 2, isRevision |-> FALSE, revisesThought |-> 0],
      [thoughtNumber |-> 3, isRevision |-> FALSE, revisesThought |-> 0] }

SelectRequests ==
    { [ currentThinking |-> ct, thoughtNumber |-> l.thoughtNumber,
        totalThoughts |-> 3, nextThoughtNeeded |-> (l.thoughtNumber < 3),
        isRevision |-> l.isRevision, revisesThought |-> l.revisesThought,
        branchFromThought |-> 0, branchId |-> NoStr,
        reasoningMode |-> "analytical", needsMoreThoughts |-> "undefined",
        externalToolResult |-> NoToolResult, userContext |-> NoContext ] :
      ct \in Thinkings, l \in SelectLinks }

NextSelect ==
    /\ Len(thoughtHistory["gemini"]) < MaxSelectHistory
    /\ \E args \in SelectRequests : Think("gemini", args)

SpecSelect == Init /\ [][NextSelect]_vars

\* A call that the guard refuses: the answer of the guard, nothing else
ThinkRefused(b, args) ==
    /\ isThinkingTooSimilar(thoughtHistory[b], args.currentThinking)
    /\ LET class == ServerClass(wiring, b)
           this == This(b)
           result == ThinkResult(class, this, args, <<>>)
       IN  /\ thoughtHistory' = [thoughtHistory EXCEPT ![b] = result.thoughtHistory]
           /\ branches' = [branches EXCEPT ![b] = result.branches]
           /\ originalQuery' = [originalQuery EXCEPT ![b] = result.originalQuery]
           /\ probe' = [fn |-> "think", class |-> class, this |-> this, args |-> args,
                        thought |-> <<>>, waited |-> 0,
                        messages |-> result.messages, response |-> result.response]
    /\ UNCHANGED <<wiring, lastThoughtTimestamp, now, calls, prior, log>>

\* The runs of SpecSelect, with the calls that the guard refuses
NextGuard ==
    \/ /\ Len(thoughtHistory["gemini"]) < MaxSelectHistory
       /\ \E args \in SelectRequests : Think("gemini", args)
    \/ \E args \in SelectRequests : ThinkRefused("gemini", args)

SpecGuard == Init /\ [][NextGuard]_vars

----------------------------------------------------------------------------
(* The detector on its own: a generated text is drawn, detectToolRequest   *)
(* is applied to it, and probe keeps the text and the result.              *)

\* Sentences that the explicit indicators do not occur in
Leads == Triggers \cup {<<"nothing", "else", "to", "do">>}

\* A line with a cue phrase: no colon, a colon and text after it, a colon at
\* the end, two colons, and a colon before the cue phrase only
CueLines ==
    UNION { { c \o <<"parser">>,
              c \o <<":", "parser">>,
              c \o <<":">>,
              <<"step", ":">> \o c \o <<":", "lexer", "rules">>,
              <<"note", ":">> \o c } : c \in Cues }

\* Texts that a pattern rule matches
RuleTexts ==
    { <<"I", "need", "to", "check", "the", "code", "for", "parser", ".">>,
      <<"We", "should", "read", "the", "documentation", "for", "zod", ".">>,
      <<"I", "must", "find", "all", "files", "that", "contain", "parse", ".">>,
      <<"I", "need", "to", "find", "the", "definition", "of", "parseConfig", ".">>,
      <<"I", "need", "to", "read", "the", "file", "config.ts", ".">> }

\* One sentence for each pattern rule
CodeAsk == <<"I", "need", "to", "check", "the", "code", "for", "parser", ".">>
DocAsk  == <<"We", "should", "read", "the", "documentation", "for", "zod", ".">>
FileAsk == <<"I", "must", "find", "all", "files", "that", "contain", "parse", ".">>

\* Texts that more than one rule applies to: sentences of two or three pattern
\* rules in either order, and a sentence of a pattern rule after an explicit
\* indicator with a cue line
PriorityTexts ==
    { a \o b : a, b \in {CodeAsk, DocAsk, FileAsk} }
    \cup { FileAsk \o DocAsk \o CodeAsk, CodeAsk \o DocAsk \o FileAsk }
    \cup { l \o <<".", "\n">> \o c \o <<"\n">> \o a :
             l \in Triggers, c \in {<<"retrieve", "code", ":", "lexer">>,
                                    <<"search", "for", ":", "lexer">>},
             a \in {CodeAsk, DocAsk, FileAsk} }

DetectTexts ==
    { l \o <<".">> \o c : l \in Leads, c \in CueLines }
    \cup { l \o <<".", "\n">> \o c : l \in Leads, c \in CueLines }
    \cup RuleTexts
    \cup PriorityTexts

InitDetect ==
    /\ wiring = "providers"
    /\ thoughtHistory = [b \in Backends |-> <<>>]
    /\ branches = [b \in Backends |-> <<>>]
    /\ originalQuery = [b \in Backends |-> ""]
    /\ lastThoughtTimestamp = [b \in Backends |-> 0]
    /\ now = StartTime
    /\ calls = [s \in Slots |-> NoCall]
    /\ prior = [b \in Backends |-> [thinking |-> "", outcome |-> "none"]]
    /\ log = <<>>
    /\ probe \in {[fn |-> "detect", text |-> t, done |-> FALSE, result |-> NoTool] :
                    t \in DetectTexts}

Detect ==
    /\ probe.fn = "detect"
    /\ ~probe.done
    /\ probe' = [probe EXCEPT !.done = TRUE, !.result = detectToolRequest(probe.text)]
    /\ UNCHANGED <<wiring, thoughtHistory, branches, originalQuery, lastThoughtTimestamp,
                   now, calls, prior, log>>

NextDetect == Detect

SpecDetect == InitDetect /\ [][NextDetect]_vars

----------------------------------------------------------------------------
(* formatCodeContext on its own: a CodeContext is drawn, the function is   *)
(* applied to it, and probe keeps the context and the text.                *)

Queries == {NoStr, "", "why does parse fail"}
Symbols ==
    { <<>>,
      <<[name |-> "parse", type |-> "function", line |-> 3]>>,
      <<[name |-> "Parser", type |-> "class", line |-> NoLine]>> }
Files ==
    { [path |-> "a.ts", language |-> l, snippet |-> sn, startLine |-> r[1], endLine |-> r[2],
       symbols |-> sy] :
        l \in {"", "typescript"}, sn \in {"", "let x"},
        r \in {<<NoLine, NoLine>>, <<1, NoLine>>, <<1, 2>>}, sy \in Symbols }
FileLists == {<<>>} \cup {<<f>> : f \in Files}
Errors ==
    { NoError,
      [present |-> TRUE, message |-> "", stack |-> ""],
      [present |-> TRUE, message |-> "boom", stack |-> ""],
      [present |-> TRUE, message |-> "", stack |-> "at parse"] }
Projects ==
    { NoProject,
      [present |-> TRUE, structure |-> "", dependencies |-> <<>>],
      [present |-> TRUE, structure |-> "src and test", dependencies |-> <<>>],
      [present |-> TRUE, structure |-> "", dependencies |-> <<"zod", "openai">>] }

\* Contexts without files, and contexts of one file and nothing else
CodeContexts ==
    { [type |-> "codeContext", query |-> q, files |-> <<>>, error |-> e, projectInfo |-> pi] :
        q \in Queries, e \in Errors, pi \in Projects }
    \cup { [type |-> "codeContext", query |-> NoStr, files |-> fl, error |-> NoError,
            projectInfo |-> NoProject] : fl \in FileLists }

InitFormat ==
    /\ wiring = "providers"
    /\ thoughtHistory = [b \in Backends |-> <<>>]
    /\ branches = [b \in Backends |-> <<>>]
    /\ originalQuery = [b \in Backends |-> ""]
    /\ lastThoughtTimestamp = [b \in Backends |-> 0]
    /\ now = StartTime
    /\ calls = [s \in Slots |-> NoCall]
    /\ prior = [b \in Backends |-> [thinking |-> "", outcome |-> "none"]]
    /\ log = <<>>
    /\ probe \in {[fn |-> "format", codeContext |-> c, done |-> FALSE, text |-> <<>>] :
                    c \in CodeContexts}

Format ==
    /\ probe.fn = "format"
    /\ ~probe.done
    /\ probe' = [probe EXCEPT !.done = TRUE, !.text = formatCodeContext(probe.codeContext)]
    /\ UNCHANGED <<wiring, thoughtHistory, branches, originalQuery, lastThoughtTimestamp,
                   now, calls, prior, log>>

NextFormat == Format

SpecFormat == InitFormat /\ [][NextFormat]_vars

\* Requests may overlap (the request handler does not queue them)
NextOverlap ==
    \/ \E s \in Slots, args \in Requests : Call(s, args) /\ UNCHANGED log
    \/ \E s \in Slots, b \in Backends : TimerFire(s, b)
    \/ \E s \in Slots, b \in Backends : \E out \in ModelOutcomes(b) : ModelReturn(s, b, out)
    \/ \E s \in Slots : Join(s)
    \/ Tick

SpecOverlap == Init /\ [][NextOverlap]_vars

\* Overlapping requests to one backend: at most MaxCalls calls, each written
\* to the log with its slot and the time it arrived at (the outcome field of
\* the log is kept for the latest call only, as in a serialized run)
RaceLinks ==
    { [thoughtNumber |-> 1, nextThoughtNeeded |-> TRUE],
      [thoughtNumber |-> 2, nextThoughtNeeded |-> FALSE] }

RaceRequests ==
    { [ modelType |-> "gemini", currentThinking |-> ct, thoughtNumber |-> l.thoughtNumber,
        totalThoughts |-> 2, nextThoughtNeeded |-> l.nextThoughtNeeded,
        isRevision |-> FALSE, revisesThought |-> 0,
        branchFromThought |-> 0, branchId |-> NoStr,
        reasoningMode |-> "analytical" ] :
      ct \in Thinkings, l \in RaceLinks }

CallOverlapping(s, args) ==
    /\ Len(log) < MaxCalls
    /\ Call(s, args)
    /\ log' = Append(log,
                 [args |-> args, slot |-> s, at |-> now,
                  outcome |-> [b \in Backends |->
                                 IF b \notin Targets(args.modelType) THEN "none"
                                 ELSE IF calls'[s].sub[b].pc = "done" THEN "rejected"
                                 ELSE "pending"]])

NextRace ==
    \/ \E s \in Slots, args \in RaceRequests : CallOverlapping(s, args)
    \/ \E s \in Slots : TimerFire(s, "gemini")
    \/ \E s \in Slots : \E out \in ModelOutcomes("gemini") : ModelReturn(s, "gemini", out)
    \/ \E s \in Slots : Join(s)
    \/ Tick

SpecRace == InitProviders /\ [][NextRace]_vars

\* Serialized runs of at most MaxCalls calls to the gemini backend, each
\* written to the log together with the session as the call found it
CallSnapshot(s, args) ==
    /\ Len(log) < MaxCalls
    /\ \A t \in Slots : ~Running(t)
    /\ Call(s, args)
    /\ log' = Append(log,
                 [args |-> args, before |-> This("gemini"),
                  outcome |-> [b \in Backends |->
                                 IF b \notin Targets(args.modelType) THEN "none"
                                 ELSE IF calls'[s].sub[b].pc = "done" THEN "rejected"
                                 ELSE "pending"]])

NextFault ==
    \/ \E s \in Slots, args \in SessionRequests : CallSnapshot(s, args)
    \/ \E s \in Slots : TimerFire(s, "gemini")
    \/ \E s \in Slots : \E out \in ModelOutcomes("gemini") : ModelReturn(s, "gemini", out)
    \/ \E s \in Slots : Join(s)
    \/ Tick

SpecFault == Init /\ [][NextFault]_vars

\* Serialized runs of at most MaxCalls calls that all ask for both backends
FanOutRequests == {r \in Requests : r.modelType = "all"}

\* What a model may answer: as ModelOutcomes, and for gemini a text that asks
\* for a tool
FanOutOutcomes(b) ==
    ModelOutcomes(b)
        \cup (IF b = "gemini"
              THEN {[ok |-> TRUE, completion |-> ToolCompletion, fault |-> NoStr]} ELSE {})

NextFanOut ==
    \/ \E s \in Slots, args \in FanOutRequests : CallLogged(s, args)
    \/ \E s \in Slots, b \in Backends : TimerFire(s, b)
    \/ \E s \in Slots, b \in Backends : \E out \in FanOutOutcomes(b) : ModelReturn(s, b, out)
    \/ \E s \in Slots : Join(s)
    \/ Tick

SpecFanOut == Init /\ [][NextFanOut]_vars

----------------------------------------------------------------------------
(* Properties *)

Last(h) == h[Len(h)]

IsPrefix(a, b) == Len(a) <= Len(b) /\ SubSeq(b, 1, Len(a)) = a

Live(s) == calls[s].pc # "free"

\* this step is the call of slot s
Started(s) == calls[s].pc # "running" /\ calls'[s].pc = "running"

\* this step ends the generation of backend b for the call of slot s
Returned(s, b) ==
    /\ Running(s)
    /\ calls[s].sub[b].pc = "generating"
    /\ calls'[s].pc = "running"
    /\ calls'[s].sub[b].pc = "done"

\* the text that the fault of a model outcome becomes: `Error generating thought: ${error}`
FaultText(out) == GENERATE_THOUGHT(ErrorString(<<out.fault>>))

\* C1 - Similarity guard.  A call whose currentThinking equals that of the last
\* record of a non-empty history is answered isError = true with a JSON body of
\* status "failed", asks the model zero times and leaves thoughtHistory, branches,
\* lastThoughtTimestamp and originalQuery as they were; a call on an empty
\* history is never rejected by the guard.
C1_SimilarityGuard ==
    [][\A s \in Slots : Started(s) =>
          \A b \in Targets(calls'[s].args.modelType) :
             LET sub == calls'[s].sub[b]
             IN  IF /\ thoughtHistory[b] # <<>>
                    /\ Last(thoughtHistory[b]).currentThinking = calls'[s].args.currentThinking
                 THEN /\ sub.pc = "done"
                      /\ sub.result.isError
                      /\ JSONparses(sub.result.content[1])
                      /\ JSONparse(sub.result.content[1]).status = "failed"
                      /\ sub.invoked = 0
                      /\ thoughtHistory'[b] = thoughtHistory[b]
                      /\ branches'[b] = branches[b]
                      /\ lastThoughtTimestamp'[b] = lastThoughtTimestamp[b]
                      /\ originalQuery'[b] = originalQuery[b]
                 ELSE thoughtHistory[b] = <<>> => sub.pc # "done"]_vars

\* a call was rejected by the guard of a backend that holds records
C1_Witness ==
    \E s \in Slots, b \in Backends :
        /\ Live(s)
        /\ calls[s].sub[b].pc = "done"
        /\ calls[s].sub[b].invoked = 0
        /\ calls[s].sub[b].result.isError
        /\ thoughtHistory[b] # <<>>
        /\ Last(thoughtHistory[b]).currentThinking = calls[s].args.currentThinking

\* C2 (as stated) - Backend failure is swallowed into a committed thought.  When
\* the model backend raises a fault during the generation of a call that passed
\* the guard, one record whose thought is the error text is appended,
\* lastThoughtTimestamp is updated and the answer carries no isError flag.
C2_FaultSwallowed ==
    [][\A s \in Slots, b \in Backends :
          (Returned(s, b) /\ ~calls'[s].sub[b].outcome.ok) =>
             /\ Len(thoughtHistory'[b]) = Len(thoughtHistory[b]) + 1
             /\ Last(thoughtHistory'[b]).thought = FaultText(calls'[s].sub[b].outcome)
             /\ lastThoughtTimestamp'[b] = now
             /\ ~calls'[s].sub[b].result.isError]_vars

\* C2 (amended) - A fault of the model backend ends the call of the provider
\* server (sequential.ts 865-974) in its catch block: isError = true with the
\* text "Error generating thought: Error: <message>", no record appended,
\* lastThoughtTimestamp and branches unchanged.  The Gemini server and the older
\* OpenRouter server swallow the fault: one record with that error text as its
\* thought is appended, lastThoughtTimestamp is set and the answer is a normal
\* thought answer.
C2_FaultPerServer ==
    [][\A s \in Slots, b \in Backends :
          (Returned(s, b) /\ ~calls'[s].sub[b].outcome.ok) =>
             LET sub == calls'[s].sub[b]
             IN  IF ServerClass(wiring, b) = "OpenRouterProvider"
                 THEN /\ thoughtHistory'[b] = thoughtHistory[b]
                      /\ lastThoughtTimestamp'[b] = lastThoughtTimestamp[b]
                      /\ branches'[b] = branches[b]
                      /\ sub.result.isError
                      /\ sub.result.content = <<PlainText(FaultText(sub.outcome))>>
                 ELSE /\ Len(thoughtHistory'[b]) = Len(thoughtHistory[b]) + 1
                      /\ IsPrefix(thoughtHistory[b], thoughtHistory'[b])
                      /\ Last(thoughtHistory'[b]).thought = FaultText(sub.outcome)
                      /\ Last(thoughtHistory'[b]).currentThinking = sub.args.currentThinking
                      /\ lastThoughtTimestamp'[b] = now
                      /\ ~sub.result.isError
                      /\ JSONparse(sub.result.content[1]).thought = FaultText(sub.outcome)]_vars

\* a fault ended a call of a provider server in an error answer
C2_Witness ==
    \E s \in Slots, b \in Backends :
        /\ Live(s)
        /\ ServerClass(wiring, b) = "OpenRouterProvider"
        /\ calls[s].sub[b].pc = "done"
        /\ calls[s].sub[b].invoked = 1
        /\ ~calls[s].sub[b].outcome.ok
        /\ calls[s].sub[b].result.isError

\* C3 - Adjacent distinctness.  With serialized calls no two consecutive records
\* of a thoughtHistory have equal currentThinking.
C3_AdjacentDistinct ==
    \A b \in Backends : \A i \in 1..(Len(thoughtHistory[b]) - 1) :
        thoughtHistory[b][i].currentThinking # thoughtHistory[b][i + 1].currentThinking

\* a history holds two records
C3_Witness == \E b \in Backends : Len(thoughtHistory[b]) >= 2

\* C4 - History is append-only.  Every step leaves the history of every backend
\* a prefix of the history after it (no record removed, reordered or changed,
\* revisions and branches included); a history grows by one record at a time,
\* only when a call ends its generation, and a call that has ended stays ended,
\* so each call appends at most one record.
C4_AppendOnly ==
    [][/\ \A b \in Backends :
             /\ IsPrefix(thoughtHistory[b], thoughtHistory'[b])
             /\ Len(thoughtHistory'[b]) <= Len(thoughtHistory[b]) + 1
             /\ Len(thoughtHistory'[b]) = Len(thoughtHistory[b]) + 1
                    => \E s \in Slots : Returned(s, b)
       /\ \A s \in Slots, b \in Backends :
             (Running(s) /\ calls[s].sub[b].pc = "done")
                => (calls'[s].pc # "free" /\ calls'[s].sub[b] = calls[s].sub[b])]_vars

\* a revision that is also a branch was committed after the thought it revises
C4_Witness ==
    \E b \in Backends :
        /\ Len(thoughtHistory[b]) = 2
        /\ thoughtHistory[b][2].isRevision
        /\ thoughtHistory[b][2].revisesThought = thoughtHistory[b][1].thoughtNumber
        /\ thoughtHistory[b][2].branchId \in DOMAIN branches[b]

\* C5 (as stated) - A call whose currentThinking equals that of the call before
\* it on the session gets a failed/error answer and commits nothing, however the
\* call before it ended (committed, rejected by the guard, or failed).
C5_RepeatFails ==
    \A s \in Slots, b \in Backends :
        (Live(s) /\ calls[s].sub[b].pc = "done" /\ calls[s].sub[b].after # "none")
            => calls[s].sub[b].result.isError

\* C5 (amended) - A call that repeats the currentThinking of the call before it
\* is rejected by the guard (error answer of the guard, model not asked) when
\* that call committed its record or was itself rejected; when that call failed
\* without a commit (a fault in the provider server), the repeat passes the
\* guard and commits like any other call once its generation succeeds.
C5_RepeatAfter ==
    \A s \in Slots, b \in Backends :
        (Live(s) /\ calls[s].sub[b].pc # "none") =>
            LET sub == calls[s].sub[b]
            IN  /\ sub.after = "kept" =>
                      sub.pc = "done" /\ sub.result = SimilarResponse /\ sub.invoked = 0
                /\ sub.after = "failed" =>
                      /\ sub.result # SimilarResponse
                      /\ (sub.pc = "done" /\ sub.outcome.ok
                              /\ CombinedOutput(sub.outcome.completion) # <<>>)
                            => /\ ~sub.result.isError
                               /\ Last(thoughtHistory[b]).currentThinking
                                      = sub.args.currentThinking

\* a repeat of a call that failed has committed its record
C5_Witness ==
    \E s \in Slots, b \in Backends :
        /\ Live(s)
        /\ calls[s].sub[b].pc = "done"
        /\ calls[s].sub[b].after = "failed"
        /\ ~calls[s].sub[b].result.isError
        /\ thoughtHistory[b] # <<>>

\* C6 - Pacing.  With serialized calls, whenever the model is being asked for a
\* backend that has committed before, at least MIN_THINKING_TIME_MS have passed
\* since the instant stored in lastThoughtTimestamp at that commit.
C6_Pacing ==
    \A s \in Slots, b \in Backends :
        (Running(s) /\ calls[s].sub[b].pc = "generating" /\ lastThoughtTimestamp[b] # 0)
            => now - lastThoughtTimestamp[b] >= MIN_THINKING_TIME_MS

\* a second call slept at the pacing gate and then committed
C6_Witness ==
    \E s \in Slots, b \in Backends :
        /\ Live(s)
        /\ calls[s].sub[b].pc = "done"
        /\ calls[s].sub[b].wakeAt > 0
        /\ ~calls[s].sub[b].result.isError
        /\ Len(thoughtHistory[b]) = 2
        /\ lastThoughtTimestamp[b] >= calls[s].sub[b].wakeAt

\* the combiner has answered the modelType = "all" call of slot s
AnsweredAll(s) ==
    Live(s) /\ calls[s].pc = "responded" /\ calls[s].args.modelType = "all"

\* the model was asked for backend b by the call of slot s and raised a fault
Faulted(s, b) == calls[s].sub[b].invoked = 1 /\ ~calls[s].sub[b].outcome.ok

\* the model was asked for backend b by the call of slot s and produced output
Produced(s, b) ==
    /\ calls[s].sub[b].invoked = 1
    /\ calls[s].sub[b].outcome.ok
    /\ CombinedOutput(calls[s].sub[b].outcome.completion) # <<>>

\* the aggregated error answer carries the fault messages of both backends
EmbedsBothFaults(s) ==
    LET obj == JSONparse(calls[s].response.content[1])
    IN  /\ Len(calls[s].response.content) = 1
        /\ JSONparses(calls[s].response.content[1])
        /\ Embeds(obj.geminiError.parts, ErrorString(<<calls[s].sub["gemini"].outcome.fault>>))
        /\ Embeds(obj.deepseekError.parts,
                  ErrorString(<<calls[s].sub["deepseek"].outcome.fault>>))

\* C7 (as stated) - Combiner, modelType "all", the model invocations of both
\* backends fail: the combined answer has isError = true and its text embeds
\* the error text of both backends.
C7_BothFail ==
    \A s \in Slots :
        (AnsweredAll(s) /\ Faulted(s, "gemini") /\ Faulted(s, "deepseek"))
            => (calls[s].response.isError /\ EmbedsBothFaults(s))

\* C7 (amended) - In the build of src/modules/sequential/index.ts (two provider
\* servers) the combined answer has isError = true and its one text embeds the
\* error text of both backends.  In the build of part_001 (Gemini server and
\* older OpenRouter server, which swallow the fault) the combined answer is not
\* an error: it has two blocks and the thought of each block is the error text
\* of its backend.
C7_BothFailPerBuild ==
    \A s \in Slots :
        (AnsweredAll(s) /\ Faulted(s, "gemini") /\ Faulted(s, "deepseek")) =>
            IF wiring = "providers"
            THEN calls[s].response.isError /\ EmbedsBothFaults(s)
            ELSE /\ ~calls[s].response.isError
                 /\ Len(calls[s].response.content) = 2
                 /\ calls[s].response.content[1].thought
                        = FaultText(calls[s].sub["gemini"].outcome)
                 /\ calls[s].response.content[2].thought
                        = FaultText(calls[s].sub["deepseek"].outcome)

\* both provider servers faulted and the combiner answered the aggregated error
C7_Witness ==
    \E s \in Slots :
        /\ AnsweredAll(s)
        /\ Faulted(s, "gemini") /\ Faulted(s, "deepseek")
        /\ wiring = "providers"
        /\ calls[s].response.isError

\* the place of a backend's block in the combined answer, and its placeholder
BlockOf(b) == IF b = "gemini" THEN 1 ELSE 2
Placeholder(b) == IF b = "gemini" THEN GEMINI_FAILED ELSE DEEPSEEK_FAILED

\* C8 - Combiner of index.ts, modelType "all", the model invocation of exactly
\* one backend fails: the combined answer is not an error and has one block per
\* backend; the block of the failing backend holds its fixed placeholder and
\* the block of the other holds the thought that backend generated.
C8_OneFails ==
    \A s \in Slots : \A f \in Backends : \A g \in Backends \ {f} :
        (AnsweredAll(s) /\ Faulted(s, f) /\ Produced(s, g)) =>
            /\ ~calls[s].response.isError
            /\ Len(calls[s].response.content) = 2
            /\ calls[s].response.content[1].label = "GEMINI"
            /\ calls[s].response.content[2].label = "DEEPSEEK"
            /\ calls[s].response.content[BlockOf(f)].thought = Placeholder(f)
            /\ calls[s].response.content[BlockOf(g)].thought
                   = CombinedOutput(calls[s].sub[g].outcome.completion)
            /\ calls[s].response.content[BlockOf(g)].thought
                   = Last(thoughtHistory[g]).thought

\* the gemini backend faulted, the deepseek backend produced its thought
C8_Witness ==
    \E s \in Slots :
        /\ AnsweredAll(s)
        /\ Faulted(s, "gemini") /\ Produced(s, "deepseek")
        /\ ~calls[s].response.isError

\* C9 - In modelType "all" the combined answer has isError = true exactly when
\* the results of both backends have it, and then its single text carries the
\* first content text of each backend as geminiError and deepseekError.
C9_ErrorIffBoth ==
    \A s \in Slots : AnsweredAll(s) =>
        /\ calls[s].response.isError <=>
               (calls[s].sub["gemini"].result.isError
                    /\ calls[s].sub["deepseek"].result.isError)
        /\ calls[s].response.isError =>
               /\ Len(calls[s].response.content) = 1
               /\ JSONparses(calls[s].response.content[1])
               /\ JSONparse(calls[s].response.content[1]).geminiError
                      = calls[s].sub["gemini"].result.content[1]
               /\ JSONparse(calls[s].response.content[1]).deepseekError
                      = calls[s].sub["deepseek"].result.content[1]

\* the aggregated error was answered for two different kinds of backend error:
\* one backend rejected the call at its guard, the other one failed
C9_Witness ==
    \E s \in Slots :
        /\ AnsweredAll(s)
        /\ calls[s].response.isError
        /\ \E b \in Backends : calls[s].sub[b].invoked = 0
        /\ \E b \in Backends : calls[s].sub[b].invoked = 1

\* C10 - All-complete join.  A modelType "all" call starts both backends with
\* the request minus modelType before either has ended; the combiner answers
\* only once both have ended; and whatever the other backend did - failed
\* first, failed later, still running - a backend whose model produced output
\* has committed its record and answers without error, and a backend that is
\* still asleep or waiting for its model after the other has failed is still
\* part of a running call and unanswered.
C10_AllCompleteJoin ==
    \A s \in Slots : (Live(s) /\ calls[s].args.modelType = "all") =>
        /\ \A b \in Backends :
              /\ calls[s].sub[b].pc # "none"
              /\ calls[s].sub[b].args = commonArgs(calls[s].args)
        /\ calls[s].pc = "responded" => \A b \in Backends : calls[s].sub[b].pc = "done"
        /\ \A b \in Backends :
              /\ (/\ calls[s].sub[b].pc \in {"waiting", "generating"}
                  /\ \E f \in Backends \ {b} :
                        calls[s].sub[f].pc = "done" /\ calls[s].sub[f].result.isError)
                    => (Running(s) /\ calls[s].sub[b].result = NoResult)
              /\ (calls[s].sub[b].pc = "done" /\ Produced(s, b))
                    => /\ ~calls[s].sub[b].result.isError
                       /\ Last(thoughtHistory[b]).currentThinking = calls[s].args.currentThinking
                       /\ Last(thoughtHistory[b]).thought
                              = JSONparse(calls[s].sub[b].result.content[1]).thought

\* the combiner answered a call in which one backend failed and the other committed
C10_Witness ==
    \E s \in Slots : \E f \in Backends : \E g \in Backends \ {f} :
        /\ AnsweredAll(s)
        /\ calls[s].sub[f].invoked = 1 /\ calls[s].sub[f].result.isError
        /\ calls[s].sub[g].invoked = 1 /\ ~calls[s].sub[g].result.isError
        /\ Last(thoughtHistory[g]).currentThinking = calls[s].args.currentThinking

----------------------------------------------------------------------------
(* Delegation to one backend *)

Other(b) == CHOOSE o \in Backends : o # b

\* C11: a call whose modelType names one backend starts only that backend's
\* server and is answered with exactly that server's response, while the other
\* backend's history, branch index, original query and timestamp stay as they
\* were and its model is never invoked; and, for every modelType, a record that
\* enters a backend's history is the one built by that backend's own call from
\* that backend's own completion.
C11_SingleBackend ==
    [][ /\ \A s \in Slots :
              (calls'[s].pc \in {"running", "responded"} /\ calls'[s].args.modelType # "all") =>
                 LET b == calls'[s].args.modelType
                 IN  /\ calls'[s].sub[Other(b)] = NoSub
                     /\ \A o \in Backends \ {b} :
                           /\ thoughtHistory'[o] = thoughtHistory[o]
                           /\ branches'[o] = branches[o]
                           /\ originalQuery'[o] = originalQuery[o]
                           /\ lastThoughtTimestamp'[o] = lastThoughtTimestamp[o]
                     /\ calls'[s].pc = "responded" => calls'[s].response = calls'[s].sub[b].result
        /\ \A b \in Backends :
              thoughtHistory'[b] # thoughtHistory[b] =>
                 \E s \in Slots, out \in ModelOutcomes(b) :
                    /\ Running(s) /\ b \in Targets(calls[s].args.modelType)
                    /\ calls[s].sub[b].pc = "generating"
                    /\ calls'[s].sub[b].outcome = out
                    /\ thoughtHistory'[b] =
                          Append(thoughtHistory[b],
                                 ThoughtData(originalQuery[b], commonArgs(calls[s].args),
                                             Generate(ServerClass(wiring, b), out).thought))
      ]_vars

\* a call for gemini alone was answered with the thought it committed, next to
\* a deepseek session that holds a record of an earlier call
C11_Witness ==
    \E s \in Slots :
       /\ calls[s].pc = "responded" /\ calls[s].args.modelType = "gemini"
       /\ ~calls[s].response.isError
       /\ calls[s].sub["gemini"].invoked = 1
       /\ calls[s].sub["deepseek"].invoked = 0
       /\ thoughtHistory["gemini"] # <<>>
       /\ Last(thoughtHistory["gemini"]).currentThinking = calls[s].args.currentThinking
       /\ thoughtHistory["deepseek"] # <<>>
       /\ Last(thoughtHistory["deepseek"]).currentThinking # calls[s].args.currentThinking

----------------------------------------------------------------------------
(* Branch index *)

\* the thoughtNumbers, in commit order, of the records of a history that carry
\* the branchId together with a branchFromThought
BranchThoughts(history, id) ==
    LET sel == SelectSeq(history, LAMBDA r : r.branchId = id /\ r.branchFromThought # 0)
    IN  [i \in 1..Len(sel) |-> sel[i].thoughtNumber]

BranchIdsOf(history) ==
    {history[i].branchId : i \in {j \in 1..Len(history) : history[j].branchFromThought # 0}}
        \ {NoStr, ""}

----------------------------------------------------------------------------
(* The original query *)

\* C13: the original query of a session is set once: once it is set no step
\* changes it, a repeated call with thoughtNumber 1 included, and all the
\* records of a history carry the same originalQuery.
C13_QuerySetOnce ==
    [][ \A b \in Backends :
          /\ originalQuery[b] # "" => originalQuery'[b] = originalQuery[b]
          /\ \A i, j \in 1..Len(thoughtHistory'[b]) :
                thoughtHistory'[b][i].originalQuery = thoughtHistory'[b][j].originalQuery
      ]_vars

\* a call enters its generation in this step (its prompt is built)
Generating(c, b) == c.pc = "running" /\ c.sub[b].pc = "generating"
PromptBuilt(s, b) == Generating(calls'[s], b) /\ ~Generating(calls[s], b)

\* C13 (as the code has it): the original query is assigned only when a call
\* builds its prompt, and then exactly when thoughtNumber is 1 or no query is
\* stored yet: it becomes that call's currentThinking. A call with another
\* thoughtNumber never changes a stored query, a later call with thoughtNumber 1
\* replaces it; a record carries the query stored when it was committed.
C13_QueryPerFirstThought ==
    [][ \A b \in Backends :
          /\ \A s \in Slots :
                PromptBuilt(s, b) =>
                   LET args == calls'[s].sub[b].args
                   IN  originalQuery'[b] =
                          IF args.thoughtNumber = 1 \/ originalQuery[b] = ""
                          THEN args.currentThinking ELSE originalQuery[b]
          /\ (\A s \in Slots : ~PromptBuilt(s, b)) => originalQuery'[b] = originalQuery[b]
          /\ Len(thoughtHistory'[b]) > Len(thoughtHistory[b]) =>
                /\ originalQuery[b] # ""
                /\ Last(thoughtHistory'[b]).originalQuery = originalQuery[b]
      ]_vars

\* two calls with thoughtNumber 1 committed: the records carry different
\* original queries and the session holds the later one
C13_Witness ==
    /\ Len(thoughtHistory["gemini"]) = 2
    /\ thoughtHistory["gemini"][1].thoughtNumber = 1
    /\ thoughtHistory["gemini"][2].thoughtNumber = 1
    /\ thoughtHistory["gemini"][1].originalQuery = "A"
    /\ thoughtHistory["gemini"][2].originalQuery = "B"
    /\ originalQuery["gemini"] = "B"

\* the calls of the log with thoughtNumber 1, among the first k
FirstThoughts(k) == {i \in 1..k : log[i].args.thoughtNumber = 1}

Highest(S) == CHOOSE i \in S : \A j \in S : j <= i
Lowest(S) == CHOOSE i \in S : \A j \in S : i <= j

\* C14: the originalQuery of the first committed record is the currentThinking
\* of the call that has thoughtNumber 1, whenever the session was called with
\* thoughtNumber 1 at all, and else that of the first call made on the session.
C14_FirstRecordQuery ==
    (log # <<>> /\ thoughtHistory["gemini"] # <<>>) =>
        LET ones == FirstThoughts(Len(log))
            q == thoughtHistory["gemini"][1].originalQuery
        IN  IF ones # {} THEN \E i \in ones : q = log[i].args.currentThinking
            ELSE q = log[1].args.currentThinking

\* C14 (as the code has it): the originalQuery of the first committed record is
\* the currentThinking of the latest call with thoughtNumber 1 made up to the
\* call that committed that record, and, when none of those calls had
\* thoughtNumber 1, that of the first call made, whether or not it committed.
\* Calls made after the first commit have no part in it.
C14_FirstRecordQueryUpToCommit ==
    (log # <<>> /\ thoughtHistory["gemini"] # <<>>) =>
        LET k == Lowest({i \in 1..Len(log) : log[i].outcome["gemini"] = "committed"})
            ones == FirstThoughts(k)
            q == thoughtHistory["gemini"][1].originalQuery
        IN  q = IF ones # {} THEN log[Highest(ones)].args.currentThinking
                ELSE log[1].args.currentThinking

\* the first call, with thoughtNumber 2, failed; the next, with thoughtNumber 3,
\* committed the first record under the first call's query; a call with
\* thoughtNumber 1 and another currentThinking came later
C14_Witness ==
    /\ Len(log) = 3
    /\ log[1].args.thoughtNumber = 2 /\ log[1].args.currentThinking = "A"
    /\ log[1].outcome["gemini"] = "failed"
    /\ log[2].args.thoughtNumber = 3 /\ log[2].outcome["gemini"] = "committed"
    /\ log[3].args.thoughtNumber = 1 /\ log[3].args.currentThinking = "B"
    /\ log[3].outcome["gemini"] = "committed"
    /\ thoughtHistory["gemini"][1].originalQuery = "A"
    /\ originalQuery["gemini"] = "B"

----------------------------------------------------------------------------
(* References between thoughts *)

\* the thought number is that of a record committed before position i
KnownBefore(history, i, n) == \E j \in 1..(i - 1) : history[j].thoughtNumber = n

\* C15: every committed record that revises or branches from a thought names a
\* thoughtNumber that was in the history when the record was committed: a
\* reference to an unknown thought is never recorded.
C15_ReferencesKnown ==
    \A b \in Backends :
       \A i \in 1..Len(thoughtHistory[b]) :
          LET r == thoughtHistory[b][i]
          IN  /\ r.revisesThought # 0 => KnownBefore(thoughtHistory[b], i, r.revisesThought)
              /\ r.branchFromThought # 0 => KnownBefore(thoughtHistory[b], i, r.branchFromThought)

----------------------------------------------------------------------------
(* Successive calls *)

\* calls i and i + 1 of the log differ in currentThinking and in nothing else
TwinCalls(i) ==
    /\ log[i].args.currentThinking # log[i + 1].args.currentThinking
    /\ [log[i].args EXCEPT !.currentThinking = ""] = [log[i + 1].args EXCEPT !.currentThinking = ""]

Ended(i) == log[i].outcome["gemini"] # "pending"

Committed(k) == {i \in 1..k : log[i].outcome["gemini"] = "committed"}

\* the currentThinking of the last record when call i was made ("" for none)
LastThinkingBefore(i) ==
    IF Committed(i - 1) = {} THEN ""
    ELSE log[Highest(Committed(i - 1))].args.currentThinking

\* every record of the history was committed by a call of the log
HistoryLogged == Len(thoughtHistory["gemini"]) = Cardinality(Committed(Len(log)))

\* C16: two successive calls that differ in currentThinking and in nothing else
\* always append two records: once both have ended, both have committed.
C16_TwinsAppendTwo ==
    /\ HistoryLogged
    /\ \A i \in 1..(Len(log) - 1) :
          (TwinCalls(i) /\ Ended(i + 1)) => {i, i + 1} \subseteq Committed(Len(log))

\* C16 (as the code has it): of two successive calls that differ in
\* currentThinking and in nothing else, the first is refused when its
\* currentThinking is that of the last record; otherwise it is not refused and
\* commits one record unless its generation ends in an error, which only the
\* OpenRouter provider server lets happen; when the first committed, the second
\* is not refused and commits likewise. So the Gemini server appends two
\* records whenever the first call differs from the last record, and the
\* provider server does when, besides, both generations return text.
C16_TwinsAppendPerCall ==
    /\ HistoryLogged
    /\ \A i \in 1..(Len(log) - 1) :
          TwinCalls(i) =>
             LET first == log[i].outcome["gemini"]
                 second == log[i + 1].outcome["gemini"]
                 canFail == IF ThrowsOnFault(wiring, "gemini") THEN {"failed"} ELSE {}
             IN  IF log[i].args.currentThinking = LastThinkingBefore(i)
                 THEN first = "rejected"
                 ELSE /\ first \in {"committed"} \cup canFail
                      /\ first = "committed" => second \in {"pending", "committed"} \cup canFail

\* two calls with the same thoughtNumber and different currentThinking both
\* committed, after an earlier call that failed
C16_Witness ==
    /\ Len(log) = 3
    /\ log[1].outcome["gemini"] = "failed"
    /\ TwinCalls(2)
    /\ log[2].args.thoughtNumber = 2
    /\ Committed(3) = {2, 3}
    /\ Len(thoughtHistory["gemini"]) = 2

\* C17: a session has no terminal state. A call is refused by the guard exactly
\* when its currentThinking is that of the last record; every other call is
\* processed (its model is asked once), whatever was sent before: a
\* nextThoughtNeeded of false, a thoughtNumber past totalThoughts, a thoughtNumber
\* sent again or a lower one.
C17_NoTerminalState ==
    /\ \A i \in 1..Len(log) :
          log[i].outcome["gemini"] = "rejected"
             <=> log[i].args.currentThinking = LastThinkingBefore(i)
    /\ \A s \in Slots :
          (Live(s) /\ log # <<>> /\ calls[s].sub["gemini"].pc = "done") =>
             (calls[s].sub["gemini"].invoked = 1 <=> log[Len(log)].outcome["gemini"] # "rejected")

\* after a committed thought 2 of 2 that needs no further thought, a thought
\* numbered 3 was processed and committed; a call for thought 1 that repeated
\* the currentThinking of that record was then refused
C17_Witness ==
    /\ Len(log) = 3
    /\ log[1].args.thoughtNumber = 2 /\ ~log[1].args.nextThoughtNeeded
    /\ log[2].args.thoughtNumber = 3
    /\ log[3].args.thoughtNumber = 1
    /\ Committed(3) = {1, 2}
    /\ log[3].outcome["gemini"] = "rejected"
    /\ Len(thoughtHistory["gemini"]) = 2

----------------------------------------------------------------------------
(* The answer of a committed call *)

\* the call of slot s committed a record on the gemini backend
CommittedCall(s) ==
    /\ Live(s) /\ calls[s].sub["gemini"].pc = "done"
    /\ ~calls[s].sub["gemini"].result.isError

\* C18: the answer of a call that committed is one JSON text that echoes the
\* request's thoughtNumber, totalThoughts and nextThoughtNeeded unchanged, whose
\* thought is the thought of the committed record, that has a suggestedToolUse
\* exactly when the detector found a tool request in the thought (with its
\* toolType and query), and whose hint is the use-the-tool text exactly then and
\* the next-thought text otherwise.
C18_ResponseEchoes ==
    \A s \in Slots :
       CommittedCall(s) =>
          LET sub == calls[s].sub["gemini"]
              text == sub.result.content
              data == JSONparse(text[1])
              record == Last(thoughtHistory["gemini"])
              tool == detectToolRequest(record.thought)
          IN  /\ Len(text) = 1 /\ JSONparses(text[1])
              /\ data.thoughtNumber = calls[s].args.thoughtNumber
              /\ data.totalThoughts = calls[s].args.totalThoughts
              /\ data.nextThoughtNeeded = calls[s].args.nextThoughtNeeded
              /\ data.thought = record.thought
              /\ record.suggestedToolUse = tool
              /\ "suggestedToolUse" \in DOMAIN data <=> tool # NoTool
              /\ "suggestedToolUse" \in DOMAIN data =>
                    /\ data.suggestedToolUse.toolType = tool.toolType
                    /\ data.suggestedToolUse.query = tool.query
              /\ data.hint = IF "suggestedToolUse" \in DOMAIN data
                             THEN USE_TOOL_HINT ELSE NEXT_THOUGHT

\* a thought numbered 3 of 2 whose text asks for the code was committed: the
\* answer suggests code retrieval for "parser"; the record before it had none
C18_Witness ==
    \E s \in Slots :
       /\ CommittedCall(s)
       /\ calls[s].args.thoughtNumber = 3 /\ calls[s].args.totalThoughts = 2
       /\ Len(thoughtHistory["gemini"]) = 2
       /\ thoughtHistory["gemini"][1].suggestedToolUse = NoTool
       /\ "suggestedToolUse" \in DOMAIN JSONparse(calls[s].sub["gemini"].result.content[1])
       /\ JSONparse(calls[s].sub["gemini"].result.content[1]).suggestedToolUse.toolType
             = "code_retrieval"
       /\ JSONparse(calls[s].sub["gemini"].result.content[1]).suggestedToolUse.query
             = <<"parser">>
       /\ JSONparse(calls[s].sub["gemini"].result.content[1]).hint = USE_TOOL_HINT

----------------------------------------------------------------------------
(* The request handler *)

\* this step answers the request of slot s without starting a call
Refused(s) == calls[s].pc # "running" /\ calls'[s].pc = "responded"

\* C19: a request for a tool the server does not have is answered "Unknown
\* tool: <name>", and a request whose arguments the schema refuses is answered
\* with a text that begins "Invalid arguments", both with isError set; the
\* handler returns these answers itself: no backend is started, no model is
\* asked and the sessions stay as they were. Only arguments the schema accepts
\* start a call.
C19_HandlerRefusals ==
    [][ \A s \in Slots :
          /\ Refused(s) =>
                LET c == calls'[s]
                    text == c.response.content
                IN  /\ c.response.isError
                    /\ Len(text) = 1 /\ text[1].kind = "plain"
                    /\ IF c.name # TOOL_NAME
                       THEN text[1].parts = <<"Unknown tool: ", c.name>>
                       ELSE /\ text[1].parts[1] = "Invalid arguments: "
                            /\ Len(text[1].parts) > 1
                            /\ c.args.currentThinking = NoStr \/ c.args.thoughtNumber <= 0
                    /\ \A b \in Backends : c.sub[b] = NoSub
                    /\ session' = session /\ prior' = prior /\ log' = log
          /\ Started(s) =>
                /\ calls'[s].args.currentThinking # NoStr
                /\ calls'[s].args.thoughtNumber > 0 /\ calls'[s].args.totalThoughts > 0
      ]_vars

\* arguments without currentThinking and with thoughtNumber 0 were refused
\* with both issues listed, on a session that holds a record
C19_Witness ==
    \E s \in Slots :
       /\ calls[s].pc = "responded" /\ "name" \in DOMAIN calls[s]
       /\ calls[s].name = TOOL_NAME
       /\ calls[s].response.isError
       /\ calls[s].response.content[1].parts =
             <<"Invalid arguments: ", "currentThinking", ": ", "Required", ", ",
               "thoughtNumber", ": ", "Number must be greater than 0">>
       /\ thoughtHistory["gemini"] # <<>>

----------------------------------------------------------------------------
(* Termination *)

\* the call of slot s has its answer, a non-empty list of texts
Answered(s) == calls[s].pc = "responded" /\ Len(calls[s].response.content) >= 1

\* C20: when every model request returns or faults, every call is answered:
\* for every modelType and whatever the models do, a running call leads to its
\* answer, and an answer always is a non-empty list of texts (the call never
\* throws).
C20_EveryCallAnswered ==
    /\ \A s \in Slots : Running(s) ~> Answered(s)
    /\ [](\A s \in Slots : calls[s].pc = "responded" => Answered(s))

\* a call for both backends was answered after both slept out the pacing
\* interval, gemini's model faulted and deepseek's returned a thought
C20_Witness ==
    \E s \in Slots :
       /\ Answered(s) /\ calls[s].args.modelType = "all"
       /\ calls[s].sub["gemini"].wakeAt > 0 /\ calls[s].sub["deepseek"].wakeAt > 0
       /\ ~calls[s].sub["gemini"].outcome.ok
       /\ calls[s].sub["deepseek"].outcome.ok
       /\ ~calls[s].sub["deepseek"].result.isError


----------------------------------------------------------------------------
(* The prompt and the advisory fields of a request *)

Thought == probe.fn = "think"
Passed == Thought /\ probe.response.isError = FALSE

\* the session that the call of the probe left on the server
Left ==
    [thoughtHistory |-> thoughtHistory["gemini"], branches |-> branches["gemini"],
     originalQuery |-> originalQuery["gemini"]]
Kept(result) ==
    [thoughtHistory |-> result.thoughtHistory, branches |-> result.branches,
     originalQuery |-> result.originalQuery]

\* C21: needsMoreThoughts does not interfere: had the call carried any other
\* value of needsMoreThoughts (or none), the server would have sent the same
\* messages, left the same session (record, branch index, original query) and
\* given the same answer
C21_NeedsMoreThoughtsIgnored ==
    Thought =>
        \A n \in NeedsMoreThoughts :
            LET other == ThinkResult(probe.class, probe.this,
                            [probe.args EXCEPT !.needsMoreThoughts = n], probe.thought)
            IN  /\ other.messages = probe.messages
                /\ Kept(other) = Left
                /\ other.response = probe.response

\* a final thought that asks for more thoughts was committed
C21_Witness ==
    /\ Passed
    /\ probe.args.needsMoreThoughts = "true"
    /\ probe.args.thoughtNumber >= probe.args.totalThoughts
    /\ Len(probe.this.thoughtHistory) > 0

----------------------------------------------------------------------------
(* The detector's fallback and its tool types *)

Detected == probe.fn = "detect" /\ probe.done

RuleMatches(text) ==
    \/ RegexCapture(text, codePattern) # <<>>
    \/ RegexCapture(text, docPattern) # <<>>
    \/ RegexCapture(text, filePattern) # <<>>

\* the lines of a text that hold a cue phrase, by their first position
CuedLines(text) ==
    {s \in LineStarts(text) : \E c \in Cues : Includes(LowerAll(Line(text, s)), c)}
FirstCuedLine(text) ==
    Line(text, CHOOSE s \in CuedLines(text) : \A m \in CuedLines(text) : s <= m)

\* the precondition of the fallback
FallsBack(text) ==
    /\ ~RuleMatches(text)
    /\ \E t \in Triggers : Includes(text, t)
    /\ CuedLines(text) # {}

Colons(line) == {j \in 1..Len(line) : line[j] = ":"}
LastColon(line) == CHOOSE j \in Colons(line) : \A m \in Colons(line) : j >= m

\* C22: in the fallback, the query is the text after the last colon of the
\* cue line, and it is "relevant code" whenever that line holds no colon
C22_FallbackQuery ==
    (Detected /\ FallsBack(probe.text)) =>
        LET line == FirstCuedLine(probe.text)
        IN  /\ probe.result # NoTool
            /\ Colons(line) = {} => probe.result.query = <<"relevant code">>
            /\ (Colons(line) # {} /\ LastColon(line) < Len(line)) =>
                    probe.result.query = SubSeq(line, LastColon(line) + 1, Len(line))

ToolTypes == {"code_retrieval", "documentation", "file_search"}

\* a text that asks for the definition, implementation or declaration of an
\* identifier, and the identifier
DefinitionAt(text) ==
    {k \in 1..(Len(text) - 3) :
        /\ text[k] = "the"
        /\ text[k + 1] \in {"definition", "implementation", "declaration"}
        /\ text[k + 2] = "of"}
AsksDefinition(text) == DefinitionAt(text) # {}
Identifier(text) == text[(CHOOSE k \in DefinitionAt(text) : TRUE) + 3]

\* a text that names a file by a token with a file extension
FileNames == {"config.ts"}
AsksFile(text) ==
    \E k \in 1..(Len(text) - 1) : text[k] = "file" /\ text[k + 1] \in FileNames

\* C23 as stated: a text about a file named with its extension yields
\* file_content, and a text that needs the definition of an identifier yields
\* symbol_definition with the identifier as the query (no earlier rule matching)
C23_FileAndSymbolRules ==
    (Detected /\ ~RuleMatches(probe.text)) =>
        /\ AsksFile(probe.text) =>
                probe.result # NoTool /\ probe.result.toolType = "file_content"
        /\ AsksDefinition(probe.text) =>
                /\ probe.result # NoTool
                /\ probe.result.toolType = "symbol_definition"
                /\ probe.result.query = <<Identifier(probe.text)>>

\* C23, amended: the detector yields no other tool types than code_retrieval,
\* documentation and file_search, and a text about a file named with its
\* extension or about the definition of an identifier yields nothing unless
\* one of the three pattern rules or the fallback applies to it
C23_ThreeToolTypes ==
    Detected =>
        /\ probe.result # NoTool => probe.result.toolType \in ToolTypes
        /\ ( /\ AsksFile(probe.text) \/ AsksDefinition(probe.text)
             /\ ~RuleMatches(probe.text)
             /\ ~FallsBack(probe.text) ) => probe.result = NoTool

\* the detector was given a text that needs the definition of an identifier
C23_Witness ==
    /\ Detected
    /\ AsksDefinition(probe.text)
    /\ ~RuleMatches(probe.text)
    /\ probe.result = NoTool

----------------------------------------------------------------------------
(* The steps of one call *)

\* where the call of slot s stands on backend b
At(c, b) == IF c.pc = "running" THEN c.sub[b].pc ELSE "none"

\* C24: a call passes the guard, then waits, then builds its prompt and asks
\* the model, and only when the model has answered it detects, appends, stamps,
\* indexes and answers; the model is asked once by a call that passes the guard
\* and never by a refused one, and a refused call does not wait
C24_StepOrder ==
    [][\A s \in Slots, b \in Backends :
        LET from == At(calls[s], b)
            to   == At(calls'[s], b)
            sub  == calls'[s].sub[b]
        IN  /\ (Started(s) /\ to # "none") =>
                /\ to \in {"done", "waiting", "generating"}
                /\ (to = "done") = isThinkingTooSimilar(thoughtHistory[b],
                                                        calls'[s].args.currentThinking)
                /\ to = "done" =>
                      sub.result = SimilarResponse /\ sub.invoked = 0 /\ sub.wakeAt = 0
                /\ to = "waiting" =>
                      sub.invoked = 0 /\ sub.wakeAt > now /\ originalQuery'[b] = originalQuery[b]
                /\ to = "generating" => sub.invoked = 1 /\ sub.wakeAt = 0
                /\ thoughtHistory'[b] = thoughtHistory[b]
                /\ lastThoughtTimestamp'[b] = lastThoughtTimestamp[b]
                /\ branches'[b] = branches[b]
            /\ (Running(s) /\ calls'[s].pc = "running" /\ to # from) =>
                \/ /\ from = "waiting" /\ to = "generating"
                   /\ now >= calls[s].sub[b].wakeAt
                   /\ sub.invoked = 1
                   /\ thoughtHistory'[b] = thoughtHistory[b]
                \/ /\ from = "generating" /\ to = "done"
                   /\ sub.invoked = 1
                   /\ sub.result # NoResult
                   /\ originalQuery'[b] = originalQuery[b]
                   /\ ~sub.result.isError =>
                        /\ Len(thoughtHistory'[b]) = Len(thoughtHistory[b]) + 1
                        /\ Last(thoughtHistory'[b]).suggestedToolUse =
                                detectToolRequest(Last(thoughtHistory'[b]).thought)
                        /\ lastThoughtTimestamp'[b] = now
                        /\ branches'[b] = BranchesAfter(branches[b], calls[s].sub[b].args)
            /\ (thoughtHistory'[b] # thoughtHistory[b] \/ branches'[b] # branches[b]
                    \/ lastThoughtTimestamp'[b] # lastThoughtTimestamp[b]) =>
                \E t \in Slots : At(calls[t], b) = "generating" /\ At(calls'[t], b) = "done"
            /\ originalQuery'[b] # originalQuery[b] =>
                \E t \in Slots : At(calls[t], b) # "generating" /\ At(calls'[t], b) = "generating"
      ]_vars

\* a call that slept through the pacing interval, asked the model once and
\* committed
C24_Witness ==
    \E s \in Slots :
        /\ Running(s)
        /\ calls[s].sub["gemini"].pc = "done"
        /\ calls[s].sub["gemini"].wakeAt > 0
        /\ calls[s].sub["gemini"].invoked = 1
        /\ ~calls[s].sub["gemini"].result.isError

Max(a, b) == IF a >= b THEN a ELSE b

\* C25: a call that passes the guard sleeps max(0, 2000 - elapsed) ms, with
\* elapsed the time since lastThoughtTimestamp, and not at all in a session
\* without a timestamp; a call that sleeps goes on to ask the model
C25_PacingWait ==
    [][\A s \in Slots, b \in Backends :
        LET from == At(calls[s], b)
            to   == At(calls'[s], b)
            elapsed == now - lastThoughtTimestamp[b]
            wait == IF lastThoughtTimestamp[b] = 0 THEN 0
                    ELSE Max(0, MIN_THINKING_TIME_MS - elapsed)
        IN  /\ (Started(s) /\ to \in {"waiting", "generating"}) =>
                /\ wait = 0 => to = "generating"
                /\ wait > 0 => to = "waiting" /\ calls'[s].sub[b].wakeAt = now + wait
            /\ (from = "waiting" /\ calls'[s].pc = "running") =>
                /\ to \in {"waiting", "generating"}
                /\ to = "generating" => now >= calls[s].sub[b].wakeAt
      ]_vars

\* a call sleeps for the rest of an interval that has partly elapsed
C25_Witness ==
    \E s \in Slots :
        /\ Running(s)
        /\ calls[s].sub["gemini"].pc = "waiting"
        /\ lastThoughtTimestamp["gemini"] > 0
        /\ calls[s].sub["gemini"].wakeAt = lastThoughtTimestamp["gemini"] + MIN_THINKING_TIME_MS
        /\ now > lastThoughtTimestamp["gemini"]

----------------------------------------------------------------------------
(* The prior thoughts in the prompt *)

\* the records of a history that a request of the given number looks back on
Earlier(history, n) == SelectSeq(history, LAMBDA t : t.thoughtNumber < n)

\* the last k elements of a sequence
LastOf(seq, k) == SubSeq(seq, IF Len(seq) > k THEN Len(seq) - k + 1 ELSE 1, Len(seq))

\* the section of the prompt that shows the given records in the given order
Shown(records) ==
    <<"\n\nPrevious thinking:\n">>
        \o JoinWith([i \in 1..Len(records) |-> PreviousThought(records[i])], "\n\n")
        \o <<"\n\n">>

ShowsNone(prompt) == \A i \in 1..Len(prompt) : prompt[i] # "Previous Thought #"

\* C26: the prompt shows the two most recent records of the history whose
\* thoughtNumber is below the request's (so a later record of a number rather
\* than an earlier one), oldest first, be that the order in which they were
\* stored or the order of their numbers; none for thoughtNumber 1; and the
\* history is left as it was, but for the record the call appends
C26_RecentPriorThoughts ==
    Passed =>
        LET recent == LastOf(Earlier(probe.this.thoughtHistory, probe.args.thoughtNumber), 2)
        IN  /\ IF recent = <<>> THEN ShowsNone(probe.messages.user)
               ELSE \/ Includes(probe.messages.user, Shown(recent))
                    \/ Includes(probe.messages.user, Shown(SortByThoughtNumber(recent, 1)))
            /\ probe.args.thoughtNumber = 1 => ShowsNone(probe.messages.user)
            /\ IsPrefix(probe.this.thoughtHistory, thoughtHistory["gemini"])

----------------------------------------------------------------------------
(* The directives of the prompt *)

\* C27: the prompt says "This revises Thought #<revisesThought>." exactly
\* when the request is a revision, and "This branches from Thought
\* #<branchFromThought>." exactly when the request names a branching point and
\* is not a revision, whichever server the combiner has wired in
C27_RevisionAndBranchDirective ==
    Passed =>
        /\ Includes(probe.messages.user, REVISION(probe.args.revisesThought))
                <=> probe.args.isRevision
        /\ Includes(probe.messages.user, BRANCH(probe.args.branchFromThought))
                <=> (probe.args.branchFromThought # 0 /\ ~probe.args.isRevision)

Holds(prompt, token) == \E i \in 1..Len(prompt) : prompt[i] = token

\* C28: the prompt asks for a conclusion exactly when thoughtNumber >=
\* totalThoughts, and it holds the block of external tool results (tool type,
\* query, result) exactly when the request carries externalToolResult
C28_ConditionalBlocks ==
    Passed =>
        LET x == probe.args.externalToolResult
        IN  /\ Holds(probe.messages.user, FINAL_THOUGHT)
                    <=> probe.args.thoughtNumber >= probe.args.totalThoughts
            /\ x # NoToolResult =>
                    Includes(probe.messages.user,
                             EXTERNAL_TOOL_RESULTS(x.toolType, x.query, x.result))
            /\ x = NoToolResult =>
                    ~Holds(probe.messages.user, EXTERNAL_TOOL_RESULTS("", "", "")[1])

\* the provider server built the prompt of a thought numbered past
\* totalThoughts that carries a tool result
C28_Witness ==
    /\ Passed
    /\ probe.class = "OpenRouterProvider"
    /\ probe.args.thoughtNumber > probe.args.totalThoughts
    /\ probe.args.externalToolResult # NoToolResult

\* other values of the state that the prompt is said not to depend on
OtherBranches == {<<>>, [b1 |-> <<2>>], [b1 |-> <<2, 2>>]}
OtherTimestamps == {0, StartTime, StartTime + MIN_THINKING_TIME_MS}

\* C29: the system and user prompts are determined by thoughtHistory,
\* originalQuery and the request: a session that differs in its branches or in
\* its lastThoughtTimestamp only sends the same messages for the same request
C29_PromptDependsOnHistoryAndQuery ==
    Passed =>
        \A br \in OtherBranches, ts \in OtherTimestamps :
            Messages(probe.class,
                     [probe.this EXCEPT !.branches = br, !.lastThoughtTimestamp = ts],
                     probe.args) = probe.messages

\* a prompt was built in a session that has a branch and a timestamp
C29_Witness ==
    /\ Passed
    /\ probe.this.branches # <<>>
    /\ probe.this.lastThoughtTimestamp # 0
    /\ probe.args.thoughtNumber > 1

----------------------------------------------------------------------------
(* The rendering of a code context *)

Formatted == probe.fn = "format" /\ probe.done

\* C30: formatCodeContext writes a subsection only when one of the fields it
\* is made from is there and not empty: the question, the line range, the
\* snippet, the symbols, the error block, the project block
C30_NoEmptySubsection ==
    Formatted =>
        LET c == probe.codeContext
            text == probe.text
        IN  /\ Holds(text, "Question about: ") => (c.query # NoStr /\ c.query # "")
            /\ Holds(text, "Lines ") =>
                    \E i \in 1..Len(c.files) :
                        c.files[i].startLine # NoLine \/ c.files[i].endLine # NoLine
            /\ Holds(text, "'''") => \E i \in 1..Len(c.files) : c.files[i].snippet # ""
            /\ Holds(text, "\n**Relevant Symbols:**\n") =>
                    \E i \in 1..Len(c.files) : c.files[i].symbols # <<>>
            /\ Holds(text, "\n**Error Information:**\n") =>
                    (c.error.present /\ (c.error.message # "" \/ c.error.stack # ""))
            /\ Holds(text, "\n**Project Information:**\n") =>
                    (c.projectInfo.present
                        /\ (c.projectInfo.structure # "" \/ c.projectInfo.dependencies # <<>>))


----------------------------------------------------------------------------
(* The order of the detector's rules *)

CodeRule(text) == RegexCapture(text, codePattern) # <<>>
DocRule(text)  == RegexCapture(text, docPattern) # <<>>
FileRule(text) == RegexCapture(text, filePattern) # <<>>

\* the explicit indicators apply: an indicator in the text and a cue line
Indicated(text) ==
    /\ \E t \in Triggers : Includes(text, t)
    /\ CuedLines(text) # {}

\* C31: the first rule that matches decides: the code rule before the
\* documentation rule before the file-search rule, each with its own captured
\* query; the explicit indicators decide only when no pattern rule matches;
\* a text that no rule and no indicator applies to yields nothing
C31_RulePriority ==
    Detected =>
        LET text == probe.text
            tool == probe.result
        IN  /\ CodeRule(text) =>
                  tool = [toolType |-> "code_retrieval",
                          query |-> RegexCapture(text, codePattern)]
            /\ (~CodeRule(text) /\ DocRule(text)) =>
                  tool = [toolType |-> "documentation",
                          query |-> RegexCapture(text, docPattern)]
            /\ (~CodeRule(text) /\ ~DocRule(text) /\ FileRule(text)) =>
                  tool = [toolType |-> "file_search",
                          query |-> RegexCapture(text, filePattern)]
            /\ (~RuleMatches(text) /\ Indicated(text)) =>
                  /\ tool # NoTool
                  /\ tool.toolType \in {"file_search", "code_retrieval"}
            /\ (~RuleMatches(text) /\ ~Indicated(text)) => tool = NoTool

\* a text whose documentation sentence comes before its code sentence, with an
\* indicator and a cue line or without, was answered with code_retrieval
C31_Witness ==
    /\ Detected
    /\ CodeRule(probe.text) /\ DocRule(probe.text) /\ FileRule(probe.text)
    /\ probe.text = FileAsk \o DocAsk \o CodeAsk
    /\ probe.result.toolType = "code_retrieval"


----------------------------------------------------------------------------
(* Overlapping calls on one session *)

\* the model answered the call of slot s with a text in this step
Completes(s, b) ==
    /\ At(calls[s], b) = "generating"
    /\ At(calls'[s], b) = "done"
    /\ calls'[s].sub[b].outcome.ok
    /\ calls'[s].sub[b].outcome.completion \in Completions[b]

\* C32: nothing stands between the guard and the append: a call that is past
\* the guard commits when its model answers, whatever was committed in the
\* meantime, so the history grows in the order the generations complete
C32_CommitWithoutGuard ==
    [][\A s \in Slots :
          Completes(s, "gemini") =>
              LET args == calls[s].sub["gemini"].args
                  h == thoughtHistory'["gemini"]
              IN  /\ Len(h) = Len(thoughtHistory["gemini"]) + 1
                  /\ SubSeq(h, 1, Len(h) - 1) = thoughtHistory["gemini"]
                  /\ h[Len(h)].currentThinking = args.currentThinking
                  /\ h[Len(h)].thoughtNumber = args.thoughtNumber
                  /\ lastThoughtTimestamp'["gemini"] = now
                  /\ ~calls'[s].sub["gemini"].result.isError]_vars

\* two calls with the same currentThinking overlapped: neither slept, their
\* model requests started less than MIN_THINKING_TIME_MS apart, both committed,
\* and the call that arrived second is the first of the two adjacent records
C32_Witness ==
    /\ Len(log) = 2 /\ log[1].slot = 1 /\ log[2].slot = 2
    /\ \A s \in Slots :
          /\ At(calls[s], "gemini") = "done"
          /\ ~calls[s].sub["gemini"].result.isError
          /\ calls[s].sub["gemini"].wakeAt = 0
          /\ calls[s].sub["gemini"].invoked = 1
    /\ log[1].args.currentThinking = log[2].args.currentThinking
    /\ log[1].args.thoughtNumber # log[2].args.thoughtNumber
    /\ log[2].at - log[1].at < MIN_THINKING_TIME_MS
    /\ Len(thoughtHistory["gemini"]) = 2
    /\ thoughtHistory["gemini"][1].currentThinking = thoughtHistory["gemini"][2].currentThinking
    /\ thoughtHistory["gemini"][1].thoughtNumber = log[2].args.thoughtNumber
    /\ thoughtHistory["gemini"][2].thoughtNumber = log[1].args.thoughtNumber


----------------------------------------------------------------------------
(* What the guard compares *)

----------------------------------------------------------------------------
(* The session after an error *)

\* the latest call of the log, and whether it has come back with isError
LatestCall == log[Len(log)]
ErrorReturned ==
    /\ log # <<>>
    /\ \E s \in Slots :
          \/ At(calls[s], "gemini") = "done" /\ calls[s].sub["gemini"].result.isError
          \/ calls[s].pc = "responded" /\ calls[s].response.isError

\* C34 as stated: a call that comes back with isError (refused by the guard,
\* or a fault that was caught) leaves thoughtHistory, branches,
\* lastThoughtTimestamp and originalQuery as it found them
C34_ErrorLeavesSessionUntouched ==
    ErrorReturned => This("gemini") = LatestCall.before

\* C34, amended: such a call leaves thoughtHistory, branches and
\* lastThoughtTimestamp as it found them; originalQuery is as it found it when
\* the guard refused the call, and after a caught fault it is the call's
\* currentThinking when the call's thoughtNumber is 1 or no query was stored,
\* and as the call found it otherwise
C34_ErrorKeepsRecords ==
    ErrorReturned =>
        LET before == LatestCall.before
            args == LatestCall.args
        IN  /\ thoughtHistory["gemini"] = before.thoughtHistory
            /\ branches["gemini"] = before.branches
            /\ lastThoughtTimestamp["gemini"] = before.lastThoughtTimestamp
            /\ originalQuery["gemini"] =
                  IF /\ LatestCall.outcome["gemini"] = "failed"
                     /\ (args.thoughtNumber = 1 \/ before.originalQuery = "")
                  THEN args.currentThinking
                  ELSE before.originalQuery

\* a call with thoughtNumber 1 failed on a session that holds a record and
\* another query, and the call before it was refused by the guard
C34_Witness ==
    /\ ErrorReturned
    /\ Len(log) = 3
    /\ log[2].outcome["gemini"] = "rejected"
    /\ LatestCall.outcome["gemini"] = "failed"
    /\ LatestCall.before.thoughtHistory # <<>>
    /\ LatestCall.before.originalQuery # ""
    /\ originalQuery["gemini"] # LatestCall.before.originalQuery


----------------------------------------------------------------------------
(* Records and answers *)

\* the calls of the log that committed a record
CommittedCalls == {i \in 1..Len(log) : log[i].outcome["gemini"] = "committed"}

\* the latest call has come back from the gemini server
CameBack(s) == log # <<>> /\ At(calls[s], "gemini") = "done"

\* C35: under serialized calls the history holds one record for each call that
\* came back without isError (a call is marked committed exactly when it comes
\* back without isError), a timestamp is stored exactly when the history holds
\* a record, and the timestamp never decreases
C35_CommitResponseCorrespondence ==
    /\ [](/\ Len(thoughtHistory["gemini"]) = Cardinality(CommittedCalls)
          /\ \A s \in Slots :
                CameBack(s) =>
                    (~calls[s].sub["gemini"].result.isError
                        <=> LatestCall.outcome["gemini"] = "committed")
          /\ lastThoughtTimestamp["gemini"] # 0 <=> thoughtHistory["gemini"] # <<>>)
    /\ [][lastThoughtTimestamp'["gemini"] >= lastThoughtTimestamp["gemini"]]_vars

\* three calls came back: one without a record between two with a record, the
\* second of them at a later time than the first
C35_Witness ==
    /\ Len(log) = 3
    /\ CommittedCalls = {1, 3}
    /\ Len(thoughtHistory["gemini"]) = 2
    /\ log[3].before.lastThoughtTimestamp > 0
    /\ lastThoughtTimestamp["gemini"] > log[3].before.lastThoughtTimestamp


----------------------------------------------------------------------------
(* The two sessions of the combiner under modelType "all" *)

Idle == \A s \in Slots : ~Running(s)

\* the currentThinking of the records of a backend, in order
ThinkingsOf(b) == [i \in 1..Len(thoughtHistory[b]) |-> thoughtHistory[b][i].currentThinking]

\* the guard gave the same verdict in both backends on every call so far
SameVerdicts ==
    \A i \in 1..Len(log) :
        log[i].outcome["gemini"] = "rejected" <=> log[i].outcome["deepseek"] = "rejected"

\* a call ended with an error of the generation in one backend only
LopsidedCalls ==
    {i \in 1..Len(log) :
        ~(log[i].outcome["gemini"] = "failed" <=> log[i].outcome["deepseek"] = "failed")}

----------------------------------------------------------------------------
(* The blocks of the combined answer *)

\* the result of backend b in the call of slot s, and the object it carries
ResultOf(s, b) == calls[s].sub[b].result
DataOf(s, b) == JSONparse(ResultOf(s, b).content[1])

\* C37: in an answer for both backends that is not an error, the block of a
\* backend holds the placeholder exactly when the result of that backend had
\* isError; the block of a backend whose result had not holds the thought of
\* that result, be it empty, and its suggestedToolUse
C37_PlaceholderOnlyForFailed ==
    \A s \in Slots : \A b \in Backends :
        (AnsweredAll(s) /\ ~calls[s].response.isError) =>
            LET block == calls[s].response.content[BlockOf(b)]
            IN  /\ block.thought = Placeholder(b) <=> ResultOf(s, b).isError
                /\ ~ResultOf(s, b).isError =>
                      /\ block.thought = DataOf(s, b).thought
                      /\ block.suggestedTool =
                            IF "suggestedToolUse" \in DOMAIN DataOf(s, b)
                            THEN JSONstringify(DataOf(s, b).suggestedToolUse)
                            ELSE PlainText(<<"None">>)


----------------------------------------------------------------------------
(* The combined answer and the order in which the backends end *)

LabelOf(b) == IF b = "gemini" THEN "GEMINI" ELSE "DEEPSEEK"

\* the block of backend b as the request and the result of b alone give it
OwnBlock(s, b) ==
    LET args == calls[s].args
        failed == ResultOf(s, b).isError
    IN  [kind |-> "block", label |-> LabelOf(b),
         thought |-> IF failed \/ DataOf(s, b).thought = <<>>
                     THEN Placeholder(b) ELSE DataOf(s, b).thought,
         thoughtNumber |-> args.thoughtNumber,
         totalThoughts |-> args.totalThoughts,
         nextThoughtNeeded |-> args.nextThoughtNeeded,
         suggestedTool |-> IF ~failed /\ "suggestedToolUse" \in DOMAIN DataOf(s, b)
                           THEN JSONstringify(DataOf(s, b).suggestedToolUse)
                           ELSE PlainText(<<"None">>)]

\* both backends committed in the call of slot s
BothCommitted(s) ==
    \A b \in Backends : calls[s].sub[b].invoked = 1 /\ ~ResultOf(s, b).isError

\* C38: a combined answer that is not an error has two blocks, gemini's first
\* and deepseek's second, each made of the request and of the result of its
\* own backend, whichever backend ended first
C38_BlocksInFixedOrder ==
    \A s \in Slots :
        (AnsweredAll(s) /\ ~calls[s].response.isError) =>
            calls[s].response.content = <<OwnBlock(s, "gemini"), OwnBlock(s, "deepseek")>>

\* both backends committed, deepseek at an earlier time than gemini, and
\* gemini's block with its tool suggestion comes first
C38_Witness ==
    \E s \in Slots :
        /\ AnsweredAll(s)
        /\ BothCommitted(s)
        /\ lastThoughtTimestamp["deepseek"] < lastThoughtTimestamp["gemini"]
        /\ calls[s].response.content[1].label = "GEMINI"
        /\ calls[s].response.content[1].suggestedTool # PlainText(<<"None">>)
        /\ calls[s].response.content[1].thought # calls[s].response.content[2].thought

============================================================================
